---- MODULE Spec2Model ----
(***************************************************************************)
(* State-machine model of the Copilot CLI session ingestion plugin:        *)
(*   - utils.ts    : estimateTokens, toTimestamp, readJsonlFile            *)
(*   - parser.ts   : type guards, resolveModelAtTime, parseSessionDirRows, *)
(*                   getDefaultModel, parseSessionsFromDirs                *)
(*   - watcher.ts  : dirty-tracking watcher, tailing (activity) watcher    *)
(*   - cache.ts    : the three caches (not among the sources; modelled     *)
(*                   from the specification text)                          *)
(*                                                                         *)
(* The specifications share the variables:                                 *)
(*   SpecParse     : parseSessionDirRows applied to bounded event logs     *)
(*   SpecTail      : processEventsDelta invocations interleaved with       *)
(*                   appends                                               *)
(*   Spec          : parseSessionsFromDirs calls interleaved with the      *)
(*                   dirty-tracking watcher, the timer and appends         *)
(*   SpecLifecycle : calls while the plugin is stopped and the root goes   *)
(*   SpecDirs      : calls while session directories come and go and the   *)
(*                   timer fires                                           *)
(*   SpecDirty     : calls while events.jsonl and workspace.yaml change    *)
(*                   and the dirty-tracking watcher is notified            *)
(*   SpecOverlap   : calls made without awaiting the call before           *)
(*   SpecOffsets   : processEventsDelta with partial lines and truncation  *)
(*   SpecChunks    : processEventsDelta with partial lines, logs growing   *)
(*   SpecWatch     : both watchers started, restarted and stopped          *)
(*   SpecModel     : calls while the default model of the CLI changes      *)
(*   SpecLogs      : calls while the process logs change or go missing     *)
(*   SpecLimit     : calls made with different limits                      *)
(*   SpecAppear    : the tailing watcher started before the sessions exist *)
(*   SpecLive      : a host that never stops calling, with fairness        *)
(***************************************************************************)
EXTENDS Integers, Sequences, FiniteSets, TLC

\* ------------------------------------------------------------------------
\* Encodings of JavaScript values
\* ------------------------------------------------------------------------

\* undefined / absent string field
NoStr == "<undefined>"

\* undefined / absent numeric field
NoNum == -1

\* event.timestamp absent or empty string
NoTs == -1

\* event.timestamp present but not parseable by Date.parse (NaN)
BadTs == -2

\* ------------------------------------------------------------------------
\* utils.ts
\* ------------------------------------------------------------------------

\* estimateTokens(text): Math.ceil(text.length / 4); text is represented by
\* its length
EstimateTokens(len) == IF len = 0 THEN 0 ELSE (len + 3) \div 4

\* Math.floor(outputTokens * 0.5)
EstimateInputFloor(outputTokens) == outputTokens \div 2

\* Math.ceil(outputTokens * 0.5)
EstimateInput(outputTokens) == (outputTokens + 1) \div 2

\* toTimestamp(value, fallback): a valid timestamp string is represented by
\* the epoch value Date.parse gives for it
ToTimestamp(value, fallback) ==
  IF value = NoTs THEN fallback
  ELSE IF value = BadTs THEN fallback
  ELSE value

\* ------------------------------------------------------------------------
\* Events (one parsed line of events.jsonl)
\* ------------------------------------------------------------------------

NoUsage == [present |-> FALSE, prompt_tokens |-> NoNum, completion_tokens |-> NoNum,
            cache_read_input_tokens |-> NoNum, cache_creation_input_tokens |-> NoNum]

Usage(p, c, cr, cw) ==
  [present |-> TRUE, prompt_tokens |-> p, completion_tokens |-> c,
   cache_read_input_tokens |-> cr, cache_creation_input_tokens |-> cw]

\* an assistant.message event; content is the content string's length
\* (NoNum when content is not a string)
AssistantMessage(id, len, model, ts, usage) ==
  [type |-> "assistant.message", hasData |-> TRUE, messageId |-> id, content |-> len,
   usage |-> usage, model |-> model, timestamp |-> ts, newModel |-> NoStr]

ModelChange(newModel, ts) ==
  [type |-> "session.model_change", hasData |-> TRUE, messageId |-> NoStr, content |-> NoNum,
   usage |-> NoUsage, model |-> NoStr, timestamp |-> ts, newModel |-> newModel]

OtherEvent(type, ts) ==
  [type |-> type, hasData |-> TRUE, messageId |-> NoStr, content |-> NoNum,
   usage |-> NoUsage, model |-> NoStr, timestamp |-> ts, newModel |-> NoStr]

\* a line that JSON.parse rejects
MalformedLine ==
  [type |-> "<malformed>", hasData |-> FALSE, messageId |-> NoStr, content |-> NoNum,
   usage |-> NoUsage, model |-> NoStr, timestamp |-> NoTs, newModel |-> NoStr]

\* a reader that gives up at the first line JSON.parse rejects
RECURSIVE ReadJsonlFileAbort(_)
ReadJsonlFileAbort(lines) ==
  IF Len(lines) = 0 \/ lines[1].type = "<malformed>" THEN <<>>
  ELSE <<lines[1]>> \o ReadJsonlFileAbort(Tail(lines))

\* readJsonlFile: the lines that parse, in file order
ReadJsonlFile(lines) == SelectSeq(lines, LAMBDA l : l.type /= "<malformed>")

\* ------------------------------------------------------------------------
\* parser.ts: type guards
\* ------------------------------------------------------------------------

IsAssistantMessage(e) ==
  /\ e.type = "assistant.message"
  /\ e.hasData
  /\ e.messageId /= NoStr /\ e.messageId /= ""
  /\ e.content /= NoNum

IsModelChange(e) ==
  /\ e.type = "session.model_change"
  /\ e.hasData
  /\ e.newModel /= NoStr /\ e.newModel /= ""

\* ------------------------------------------------------------------------
\* parser.ts: resolveModelAtTime
\* ------------------------------------------------------------------------

RECURSIVE WalkBack(_, _, _, _)
WalkBack(i, timestamp, defaultModel, modelChanges) ==
  IF i = 0 THEN defaultModel
  ELSE IF modelChanges[i].timestamp <= timestamp THEN modelChanges[i].model
  ELSE WalkBack(i - 1, timestamp, defaultModel, modelChanges)

ResolveModelAtTime(timestamp, defaultModel, modelChanges) ==
  IF Len(modelChanges) = 0 THEN defaultModel
  ELSE WalkBack(Len(modelChanges), timestamp, defaultModel, modelChanges)

\* ------------------------------------------------------------------------
\* parser.ts: parseSessionDirRows
\* ------------------------------------------------------------------------

\* Array.prototype.sort with (a, b) => a.timestamp - b.timestamp is stable:
\* insert x behind every element whose timestamp is <= x.timestamp
RECURSIVE InsertByTimestamp(_, _)
InsertByTimestamp(sorted, x) ==
  IF Len(sorted) = 0 THEN <<x>>
  ELSE IF sorted[Len(sorted)].timestamp <= x.timestamp THEN Append(sorted, x)
  ELSE Append(InsertByTimestamp(SubSeq(sorted, 1, Len(sorted) - 1), x), sorted[Len(sorted)])

RECURSIVE SortByTimestamp(_)
SortByTimestamp(s) ==
  IF Len(s) = 0 THEN <<>>
  ELSE InsertByTimestamp(SortByTimestamp(SubSeq(s, 1, Len(s) - 1)), s[Len(s)])

\* the model timeline in file order, not sorted
ModelTimelineUnsorted(events) ==
  LET mc == SelectSeq(events, IsModelChange)
  IN  [i \in 1..Len(mc) |-> [timestamp |-> ToTimestamp(mc[i].timestamp, 0),
                            model |-> mc[i].newModel]]

\* lines 161-171: the model timeline, sorted ascending by timestamp
ModelTimeline(events) ==
  LET mc == SelectSeq(events, IsModelChange)
  IN  SortByTimestamp([i \in 1..Len(mc) |-> [timestamp |-> ToTimestamp(mc[i].timestamp, 0),
                                             model |-> mc[i].newModel]])

\* workspace.yaml as readWorkspaceYaml returns it; present = FALSE stands for null
NoWorkspace == [present |-> FALSE, id |-> NoStr, cwd |-> "", summary |-> NoStr]

Workspace(id, cwd, summary) == [present |-> TRUE, id |-> id, cwd |-> cwd, summary |-> summary]

\* lines 186-202: the token figures of one assistant message
RowTokens(e) ==
  IF e.usage.present /\ e.usage.prompt_tokens /= NoNum /\ e.usage.prompt_tokens > 0
  THEN [input |-> e.usage.prompt_tokens,
        output |-> IF e.usage.completion_tokens = NoNum THEN 0 ELSE e.usage.completion_tokens,
        cacheRead |-> IF e.usage.cache_read_input_tokens > 0
                      THEN e.usage.cache_read_input_tokens ELSE NoNum,
        cacheWrite |-> IF e.usage.cache_creation_input_tokens > 0
                       THEN e.usage.cache_creation_input_tokens ELSE NoNum,
        isEstimated |-> FALSE]
  ELSE [input |-> EstimateInput(EstimateTokens(e.content)),
        output |-> EstimateTokens(e.content),
        cacheRead |-> NoNum,
        cacheWrite |-> NoNum,
        isEstimated |-> TRUE]

\* line 204: data.model ?? resolveModelAtTime(...)
RowModel(e, mtimeMs, defaultModel, modelChanges) ==
  IF e.model /= NoStr THEN e.model
  ELSE ResolveModelAtTime(ToTimestamp(e.timestamp, mtimeMs), defaultModel, modelChanges)

\* lines 206-230: the usage row of one assistant message.  messageId is the
\* key under which the row sits in the deduplicating Map; it is kept in the
\* row so that properties can name "the row of message m"
UsageRow(e, ws, dirName, mtimeMs, defaultModel, modelChanges) ==
  LET t == RowTokens(e)
  IN  [messageId |-> e.messageId,
       sessionId |-> IF ws.present THEN ws.id ELSE dirName,
       providerId |-> "github-copilot",
       modelId |-> RowModel(e, mtimeMs, defaultModel, modelChanges),
       input |-> t.input,
       output |-> t.output,
       cacheRead |-> t.cacheRead,
       cacheWrite |-> t.cacheWrite,
       timestamp |-> ToTimestamp(e.timestamp, mtimeMs),
       sessionUpdatedAt |-> mtimeMs,
       isEstimated |-> t.isEstimated,
       sessionName |-> IF ws.present /\ ws.summary /= NoStr /\ ws.summary /= ""
                       THEN ws.summary ELSE NoStr,
       projectPath |-> IF ws.present /\ ws.cwd /= "" THEN ws.cwd ELSE NoStr]

\* Map.prototype.set keeping the first insertion's position, never replacing
MapSetKeepFirst(map, row) ==
  IF \E i \in 1..Len(map) : map[i].messageId = row.messageId
  THEN map
  ELSE Append(map, row)

\* Map.prototype.set: an existing key keeps its position and takes the new
\* value, a new key goes last
MapSet(map, row) ==
  IF \E i \in 1..Len(map) : map[i].messageId = row.messageId
  THEN [i \in 1..Len(map) |-> IF map[i].messageId = row.messageId THEN row ELSE map[i]]
  ELSE Append(map, row)

RECURSIVE DedupRows(_, _, _, _, _, _)
DedupRows(events, ws, dirName, mtimeMs, defaultModel, modelChanges) ==
  IF Len(events) = 0 THEN <<>>
  ELSE LET front == DedupRows(SubSeq(events, 1, Len(events) - 1), ws, dirName,
                              mtimeMs, defaultModel, modelChanges)
           e     == events[Len(events)]
       IN  IF IsAssistantMessage(e)
           THEN MapSet(front, UsageRow(e, ws, dirName, mtimeMs, defaultModel, modelChanges))
           ELSE front

\* parseSessionDirRows stamping its rows with the time 0 instead of mtimeMs
ParseSessionDirRowsUnstamped(lines, ws, dirName, mtimeMs, defaultModel) ==
  LET events == ReadJsonlFile(lines)
  IN  IF Len(events) = 0 THEN <<>>
      ELSE DedupRows(events, ws, dirName, 0, defaultModel, ModelTimeline(events))

\* parseSessionDirRows(dirPath, mtimeMs, defaultModel) on a directory whose
\* events.jsonl holds `lines` and whose workspace.yaml reads as `ws`
ParseSessionDirRows(lines, ws, dirName, mtimeMs, defaultModel) ==
  LET events == ReadJsonlFile(lines)
  IN  IF Len(events) = 0 THEN <<>>
      ELSE DedupRows(events, ws, dirName, mtimeMs, defaultModel, ModelTimeline(events))

\* readJsonlFile(eventsPath) as parseSessionDirRows sees it: fs.readFile
\* throws when the file is missing or unreadable, and the outer try/catch of
\* readJsonlFile turns that into the empty list
ReadEvents(readable, lines) ==
  IF readable THEN <<"rows", ReadJsonlFile(lines)>> ELSE <<"rows", <<>>>>

\* parseSessionDirRows with the file states: what the call comes to
ParseOutcome(readable, lines, ws, dirName, mtimeMs, defaultModel) ==
  LET events == ReadEvents(readable, lines)
  IN  IF events[1] = "raised" THEN <<"raised">>
      ELSE IF Len(events[2]) = 0 THEN <<"rows", <<>>>>
      ELSE <<"rows", ParseSessionDirRows(lines, ws, dirName, mtimeMs, defaultModel)>>

\* ------------------------------------------------------------------------
\* Variables
\* ------------------------------------------------------------------------

VARIABLES
  \* --- the filesystem and the clock (environment)
  rootExists,             \* ~/.copilot/session-state exists
  fs,                     \* per session directory: its events.jsonl
  clock,                  \* Date.now()
  logModel,               \* the model named last in the latest process-*.log (NoStr: none)
  \* --- watcher.ts: dirty-tracking watcher
  sessionWatcher,         \* the sessionWatcher object
  forceFullReconciliation,
  swTasks,                \* getSessionDirs().then(...) of startSessionWatcher not yet run
  notif,                  \* change notifications of events.jsonl not yet delivered
  rootNotif,              \* rename notifications of the root not yet delivered
  wsNotif,                \* change notifications of workspace.yaml not yet delivered
  \* --- watcher.ts: tailing (activity) watcher
  activityWatcher,        \* the activityWatcher object
  awTasks,                \* getSessionDirs().then(...) of startActivityWatch not yet run
  primeTasks,             \* primeSessionOffset calls suspended at their stat
  anotif,                 \* change notifications of events.jsonl not yet delivered
  arootNotif,             \* 'rename' notifications of the root not yet delivered
  tails,                  \* processEventsDelta invocations in flight
  delivered,              \* the ActivityUpdates passed to callbacks, in order
  reads,                  \* the byte ranges read by processEventsDelta, in order
  begun,                  \* number of parseSessionsFromDirs calls made so far
  stops,                  \* number of stopActivityWatch calls so far
  \* --- cache.ts and parser.ts module state
  sessionCache,
  sessionMetadataIndex,
  sessionAggregateCache,
  cachedModel,
  modelCacheTime,
  call,                   \* parseSessionsFromDirs invocations in flight
  \* --- SpecParse
  pReadable,              \* the event log under test exists and can be read
  pLines,                 \* the lines of the event log under test
  pMtime,                 \* the mtimeMs argument
  pRows                   \* <<"none">> or <<"rows", result of parseSessionDirRows>>

envVars == <<rootExists, fs, clock, logModel>>

swVars == <<sessionWatcher, forceFullReconciliation, swTasks, notif, rootNotif, wsNotif>>

awVars == <<activityWatcher, awTasks, primeTasks, anotif, arootNotif, tails, delivered, reads>>

cacheVars == <<sessionCache, sessionMetadataIndex, sessionAggregateCache, cachedModel,
               modelCacheTime>>

parseVars == <<pReadable, pLines, pMtime, pRows>>

vars == <<rootExists, fs, clock, logModel, sessionWatcher, forceFullReconciliation, swTasks, notif,
          rootNotif, wsNotif, activityWatcher, awTasks, primeTasks, anotif, arootNotif, tails, delivered,
          reads, begun, stops, sessionCache, sessionMetadataIndex, sessionAggregateCache, cachedModel,
          modelCacheTime, call, pReadable, pLines, pMtime, pRows>>

\* ------------------------------------------------------------------------
\* The filesystem
\* ------------------------------------------------------------------------

\* the session directories (base names) that may exist under the root
Dirs == {"d1", "d2"}

\* bytes per line of events.jsonl: LineBytes - 1 bytes of JSON and the newline
LineBytes == 3

\* greatest mtime a file takes: every write to a file raises its mtime by one
MaxMtime == 3

\* the lines the CLI writes to the events.jsonl of each directory, in order
FileLines(d) ==
  IF d = "d1"
  THEN << AssistantMessage("m1", 5, NoStr, 1, NoUsage),
          AssistantMessage("m2", 3, NoStr, 2, NoUsage),
          AssistantMessage("m1", 9, NoStr, 3, NoUsage) >>
  ELSE << ModelChange("X", 0),
          AssistantMessage("m3", 4, NoStr, NoTs, Usage(NoNum, NoNum, 2, 0)) >>

\* workspace.yaml of each directory
WorkspaceOf(d) ==
  IF d = "d1" THEN Workspace("sX", "/proj", "fix") ELSE NoWorkspace

\* greatest number of writes (appended lines, created logs) in a run
MaxWrites == 2

\* every write raised one mtime by one
WritesLeft(f) == (f["d1"].mtime - 1) + (f["d2"].mtime - 1) < MaxWrites

MaxSize(d) == LineBytes * Len(FileLines(d))

\* number of lines whose JSON is complete in the first `size` bytes
CompleteLines(size) == (size + 1) \div LineBytes

\* what readJsonlFile(events.jsonl of d) yields now
EventsOnDisk(d) ==
  IF rootExists /\ fs[d].exists
  THEN SubSeq(FileLines(d), 1, CompleteLines(fs[d].size))
  ELSE <<>>

\* getSessionDirs(): the directories whose events.jsonl is accessible
\* (readdir order is the order of the names)
DiscoveredSet == IF rootExists THEN { d \in Dirs : fs[d].exists } ELSE {}

RECURSIVE SetToSeq(_)
SetToSeq(S) ==
  IF S = {} THEN <<>>
  ELSE LET x == CHOOSE y \in S : \A z \in S : (y = "d1") \/ (z /= "d1")
       IN  <<x>> \o SetToSeq(S \ {x})

GetSessionDirs == SetToSeq(DiscoveredSet)

InitEnv ==
  /\ rootExists = TRUE
  /\ fs = [d \in Dirs |-> [exists |-> TRUE, mtime |-> 1, size |-> LineBytes]]
  /\ clock = 0
  /\ logModel = "gpt-a"

\* ------------------------------------------------------------------------
\* watcher.ts: module state
\* ------------------------------------------------------------------------

\* a Map<string, FSWatcher> entry: "none" no entry, "live" a watcher that
\* reports changes, "dead" a watcher whose directory has been removed
NoWatchers == [d \in Dirs |-> "none"]

\* Beside the fields of the code, each watcher object carries `opened`: the
\* number of fs.watch watchers (of the root, of each session directory) and of
\* intervals that have been created and not closed.
NoneOpened == [d \in Dirs |-> 0]

\* concurrent processEventsDelta invocations the model follows
TailIds == {1, 2}

\* greatest number of stopActivityWatch calls in a run
MaxStops == 1

NoTail == [pc |-> "idle", dir |-> NoStr, callback |-> NoStr, size |-> 0, startOffset |-> 0]

InitWatchers ==
  /\ sessionWatcher = [sessionDirWatchers |-> NoWatchers, rootWatcher |-> "none",
                       dirtyPaths |-> {}, reconciliationTimer |-> FALSE, started |-> FALSE,
                       opened |-> [root |-> 0, timer |-> 0, dirs |-> NoneOpened]]
  /\ forceFullReconciliation = FALSE
  /\ swTasks = 0
  /\ notif = [d \in Dirs |-> FALSE]
  /\ rootNotif = {}
  /\ wsNotif = [d \in Dirs |-> FALSE]
  /\ activityWatcher = [sessionDirWatchers |-> NoWatchers, rootWatcher |-> "none",
                        callback |-> NoStr, fileOffsets |-> [d \in Dirs |-> NoNum],
                        started |-> FALSE,
                        opened |-> [root |-> 0, dirs |-> NoneOpened]]
  /\ awTasks = 0
  /\ primeTasks = [d \in Dirs |-> 0]
  /\ anotif = [d \in Dirs |-> FALSE]
  /\ arootNotif = {}
  /\ tails = [t \in TailIds |-> NoTail]
  /\ delivered = <<>>
  /\ reads = <<>>
  /\ stops = 0
  /\ begun = 0

\* fsSync.watch(path) succeeding also when the path does not exist
NewWatcherAlways(exists) == "live"

\* fsSync.watch(path) succeeds when the path exists
NewWatcher(exists) == IF exists THEN "live" ELSE "none"

\* the number of watchers that fsSync.watch(path) adds
Added(exists) == IF NewWatcher(exists) = "none" THEN 0 ELSE 1

\* watchSessionDir / watchSessionDirForActivity applied to every directory of
\* S: an existing entry is kept, a missing one is created when fs.watch succeeds
WatchDirs(watchers, S) ==
  [d \in Dirs |-> IF d \in S /\ watchers[d] = "none"
                  THEN NewWatcher(rootExists /\ fs[d].exists)
                  ELSE watchers[d]]

\* the watchers opened per directory after WatchDirs(watchers, S)
OpenedDirs(watchers, opened, S) ==
  [d \in Dirs |-> IF d \in S /\ watchers[d] = "none"
                  THEN opened[d] + Added(rootExists /\ fs[d].exists)
                  ELSE opened[d]]

\* the watchers opened per directory after watcher.close() for every value
\* of the map
ClosedDirs(watchers, opened) ==
  [d \in Dirs |-> IF watchers[d] = "none" THEN opened[d] ELSE opened[d] - 1]

\* ------------------------------------------------------------------------
\* watcher.ts: the tailing (activity) watcher
\* ------------------------------------------------------------------------

\* lines 145-166 of processEventsDelta: the tokens of one ActivityUpdate
TailTokens(e) ==
  LET real == e.usage.present /\ e.usage.prompt_tokens /= NoNum /\ e.usage.prompt_tokens > 0
      out  == IF real
              THEN (IF e.usage.completion_tokens = NoNum THEN 0 ELSE e.usage.completion_tokens)
              ELSE EstimateTokens(e.content)
  IN  [input |-> IF real THEN e.usage.prompt_tokens ELSE EstimateInput(out),
       output |-> out,
       cacheRead |-> IF e.usage.present /\ e.usage.cache_read_input_tokens > 0
                     THEN e.usage.cache_read_input_tokens ELSE NoNum,
       cacheWrite |-> IF e.usage.present /\ e.usage.cache_creation_input_tokens > 0
                      THEN e.usage.cache_creation_input_tokens ELSE NoNum]

\* lines 128-139 parsing a piece of a line as if it were the line
InChunkPartly(k, from) == LineBytes * k > from

\* lines 128-139: JSON.parse accepts line k of the file in the chunk read from
\* byte `from` when the chunk holds the line from its first byte on; the rest
\* of a line that began before the chunk is skipped
InChunk(k, from) == LineBytes * (k - 1) >= from

\* the ActivityUpdates of the lines k..last of d whose JSON lies completely in
\* the bytes from `from` on: chunk.split(/\r?\n/), JSON.parse of each piece,
\* isAssistantMessage, callback
RECURSIVE Updates(_, _, _, _, _)
Updates(d, k, last, from, cb) ==
  IF k > last THEN <<>>
  ELSE LET e    == FileLines(d)[k]
           rest == Updates(d, k + 1, last, from, cb)
       IN  IF InChunk(k, from) /\ IsAssistantMessage(e)
           THEN << [callback |-> cb, dir |-> d, line |-> k, from |-> from,
                    sessionId |-> IF WorkspaceOf(d).present THEN WorkspaceOf(d).id ELSE d,
                    messageId |-> e.messageId,
                    tokens |-> TailTokens(e),
                    timestamp |-> ToTimestamp(e.timestamp, clock)] >> \o rest
           ELSE rest

\* startActivityWatch(cb)
StartActivityWatch(cb) ==
  /\ activityWatcher' =
       IF activityWatcher.started
       THEN [activityWatcher EXCEPT !.callback = cb]
       ELSE [activityWatcher EXCEPT !.callback = cb, !.started = TRUE,
                                    !.rootWatcher = NewWatcher(rootExists),
                                    !.opened.root = @ + Added(rootExists)]
  /\ awTasks' = IF activityWatcher.started THEN awTasks ELSE awTasks + 1
  /\ UNCHANGED <<envVars, swVars, primeTasks, anotif, tails, delivered, reads, begun, stops,
                 cacheVars, call, parseVars,
                 arootNotif>>

\* the getSessionDirs().then(...) of startActivityWatch: watch and prime
\* every discovered directory
ActivityDiscovered ==
  /\ awTasks > 0
  /\ awTasks' = awTasks - 1
  /\ activityWatcher' = [activityWatcher EXCEPT
                           !.sessionDirWatchers = WatchDirs(@, DiscoveredSet),
                           !.opened.dirs = OpenedDirs(activityWatcher.sessionDirWatchers, @,
                                                      DiscoveredSet)]
  /\ primeTasks' = [d \in Dirs |-> IF d \in DiscoveredSet THEN primeTasks[d] + 1
                                   ELSE primeTasks[d]]
  /\ UNCHANGED <<envVars, swVars, anotif, tails, delivered, reads, begun, stops, cacheVars, call,
                 parseVars,
                 arootNotif>>

\* primeSessionOffset(d) resumes from its stat
PrimeSessionOffset(d) ==
  /\ primeTasks[d] > 0
  /\ primeTasks' = [primeTasks EXCEPT ![d] = @ - 1]
  /\ activityWatcher' =
       IF rootExists /\ fs[d].exists
       THEN [activityWatcher EXCEPT !.fileOffsets[d] = fs[d].size]
       ELSE activityWatcher
  /\ UNCHANGED <<envVars, swVars, awTasks, anotif, tails, delivered, reads, begun, stops, cacheVars,
                 call, parseVars,
                 arootNotif>>

\* the fs.watch callback of watchSessionDirForActivity for events.jsonl of d:
\* processEventsDelta starts and runs to its first await (the stat)
TailStart(t, d) ==
  /\ anotif[d]
  /\ activityWatcher.sessionDirWatchers[d] = "live"
  /\ tails[t].pc = "idle"
  /\ \A u \in TailIds : u < t => tails[u].pc /= "idle"
  /\ anotif' = [anotif EXCEPT ![d] = FALSE]
  /\ tails' = IF activityWatcher.callback = NoStr
              THEN tails
              ELSE [tails EXCEPT ![t] = [NoTail EXCEPT !.pc = "stat", !.dir = d,
                                                     !.callback = activityWatcher.callback]]
  /\ UNCHANGED <<envVars, swVars, activityWatcher, awTasks, primeTasks, delivered, reads,
                 begun, stops, cacheVars, call, parseVars,
                 arootNotif>>

\* processEventsDelta resumes from fs.stat and runs to fs.open
TailStat(t) ==
  /\ tails[t].pc = "stat"
  /\ LET d      == tails[t].dir
         known  == IF activityWatcher.fileOffsets[d] = NoNum THEN 0
                   ELSE activityWatcher.fileOffsets[d]
         size   == fs[d].size
         start  == IF size < known THEN 0 ELSE known
     IN  IF ~(rootExists /\ fs[d].exists)
         THEN /\ activityWatcher' = [activityWatcher EXCEPT !.fileOffsets[d] = NoNum]
              /\ tails' = [tails EXCEPT ![t] = NoTail]
         ELSE /\ UNCHANGED activityWatcher
              /\ tails' = IF size = start
                          THEN [tails EXCEPT ![t] = NoTail]
                          ELSE [tails EXCEPT ![t].pc = "read", ![t].size = size,
                                             ![t].startOffset = start]
  /\ UNCHANGED <<envVars, swVars, awTasks, primeTasks, anotif, delivered, reads, begun, stops,
                 cacheVars, call, parseVars,
                 arootNotif>>

\* processEventsDelta resumes from open/read/close, records the offset and
\* runs to readWorkspaceYaml
TailRead(t) ==
  /\ tails[t].pc = "read"
  /\ LET d == tails[t].dir
     IN  IF ~(rootExists /\ fs[d].exists)
         THEN /\ tails' = [tails EXCEPT ![t] = NoTail]
              /\ UNCHANGED <<activityWatcher, reads>>
         ELSE /\ activityWatcher' = [activityWatcher EXCEPT !.fileOffsets[d] = tails[t].size]
              /\ tails' = [tails EXCEPT ![t].pc = "ws"]
              /\ reads' = Append(reads, [dir |-> d, from |-> tails[t].startOffset,
                                         to |-> tails[t].size])
  /\ UNCHANGED <<envVars, swVars, awTasks, primeTasks, anotif, delivered, begun, stops, cacheVars,
                 call, parseVars,
                 arootNotif>>

\* processEventsDelta resumes from readWorkspaceYaml and calls the callback
\* for every assistant message of the chunk
TailDeliver(t) ==
  /\ tails[t].pc = "ws"
  /\ delivered' = delivered \o Updates(tails[t].dir, 1, CompleteLines(tails[t].size),
                                       tails[t].startOffset, tails[t].callback)
  /\ tails' = [tails EXCEPT ![t] = NoTail]
  /\ UNCHANGED <<envVars, swVars, activityWatcher, awTasks, primeTasks, anotif, reads, begun, stops,
                 cacheVars, call, parseVars,
                 arootNotif>>

\* the CLI appends the next line to events.jsonl of d; both watchers of the
\* directory are notified (a notification still pending absorbs the new one)
AppendLine(d) ==
  /\ rootExists /\ fs[d].exists
  /\ fs[d].size < MaxSize(d)
  /\ fs[d].mtime < MaxMtime /\ WritesLeft(fs)
  /\ fs' = [fs EXCEPT ![d].size = LineBytes * ((@ \div LineBytes) + 1), ![d].mtime = @ + 1]
  /\ anotif' = [anotif EXCEPT ![d] = @ \/ activityWatcher.sessionDirWatchers[d] = "live"]
  /\ notif' = [notif EXCEPT ![d] = @ \/ sessionWatcher.sessionDirWatchers[d] = "live"]
  /\ UNCHANGED <<rootExists, clock, logModel, sessionWatcher, forceFullReconciliation, swTasks,
                 rootNotif, activityWatcher, awTasks, primeTasks, tails, delivered, reads,
                 begun, stops,
                 cacheVars, call, parseVars,
                 wsNotif,
                 arootNotif>>

\* the CLI has written the first byte of the next line of events.jsonl of d
\* and not yet the rest; both watchers of the directory are notified
AppendPartial(d) ==
  /\ rootExists /\ fs[d].exists
  /\ fs[d].size % LineBytes = 0 /\ fs[d].size < MaxSize(d)
  /\ fs[d].mtime < MaxMtime /\ WritesLeft(fs)
  /\ fs' = [fs EXCEPT ![d].size = @ + 1, ![d].mtime = @ + 1]
  /\ anotif' = [anotif EXCEPT ![d] = @ \/ activityWatcher.sessionDirWatchers[d] = "live"]
  /\ notif' = [notif EXCEPT ![d] = @ \/ sessionWatcher.sessionDirWatchers[d] = "live"]
  /\ UNCHANGED <<rootExists, clock, logModel, sessionWatcher, forceFullReconciliation, swTasks,
                 rootNotif, activityWatcher, awTasks, primeTasks, tails, delivered, reads,
                 begun, stops, cacheVars, call, parseVars,
                 wsNotif,
                 arootNotif>>

\* events.jsonl of d is truncated (rotated) to fewer whole lines, or to
\* nothing; the CLI goes on writing from there; both watchers are notified
TruncateLog(d) ==
  /\ rootExists /\ fs[d].exists
  /\ fs[d].mtime < MaxMtime /\ WritesLeft(fs)
  /\ \E n \in 0..Len(FileLines(d)) :
       /\ LineBytes * n < fs[d].size
       /\ fs' = [fs EXCEPT ![d].size = LineBytes * n, ![d].mtime = @ + 1]
  /\ anotif' = [anotif EXCEPT ![d] = @ \/ activityWatcher.sessionDirWatchers[d] = "live"]
  /\ notif' = [notif EXCEPT ![d] = @ \/ sessionWatcher.sessionDirWatchers[d] = "live"]
  /\ UNCHANGED <<rootExists, clock, logModel, sessionWatcher, forceFullReconciliation, swTasks,
                 rootNotif, activityWatcher, awTasks, primeTasks, tails, delivered, reads,
                 begun, stops, cacheVars, call, parseVars,
                 wsNotif,
                 arootNotif>>

\* stopSessionWatcher() applied to the sessionWatcher object
StoppedSessionWatcher(sw) ==
  [sw EXCEPT !.reconciliationTimer = FALSE, !.sessionDirWatchers = NoWatchers,
             !.rootWatcher = "none", !.dirtyPaths = {}, !.started = FALSE,
             !.opened = [root  |-> IF sw.rootWatcher = "none" THEN @.root ELSE @.root - 1,
                         timer |-> IF sw.reconciliationTimer THEN @.timer - 1 ELSE @.timer,
                         dirs  |-> ClosedDirs(sw.sessionDirWatchers, @.dirs)]]

\* stopActivityWatch(), which ends with stopSessionWatcher(); closed watchers
\* deliver no notification any more
StopActivityWatch ==
  /\ stops < MaxStops
  /\ stops' = stops + 1
  /\ activityWatcher' =
       [sessionDirWatchers |-> NoWatchers, rootWatcher |-> "none",
        callback |-> NoStr, fileOffsets |-> [d \in Dirs |-> NoNum],
        started |-> FALSE,
        opened |-> [root |-> IF activityWatcher.rootWatcher = "none"
                             THEN activityWatcher.opened.root
                             ELSE activityWatcher.opened.root - 1,
                    dirs |-> ClosedDirs(activityWatcher.sessionDirWatchers,
                                        activityWatcher.opened.dirs)]]
  /\ sessionWatcher' = StoppedSessionWatcher(sessionWatcher)
  /\ anotif' = [d \in Dirs |-> FALSE]
  /\ notif' = [d \in Dirs |-> FALSE]
  /\ rootNotif' = {}
  /\ wsNotif' = [d \in Dirs |-> FALSE]
  /\ arootNotif' = {}
  /\ UNCHANGED <<envVars, forceFullReconciliation, swTasks, awTasks, primeTasks, tails,
                 delivered, reads, begun, cacheVars, call, parseVars>>

\* ------------------------------------------------------------------------
\* watcher.ts: the dirty-tracking watcher
\* ------------------------------------------------------------------------

\* startSessionWatcher() without the test of sessionWatcher.started
StartedSessionWatcherAgain(sw) ==
  [sw EXCEPT !.started = TRUE, !.rootWatcher = NewWatcher(rootExists),
             !.reconciliationTimer = TRUE,
             !.opened.root = @ + Added(rootExists), !.opened.timer = @ + 1]

\* startSessionWatcher() without the setInterval of lines 215-217
StartedSessionWatcherNoTimer(sw) ==
  IF sw.started THEN sw
  ELSE [sw EXCEPT !.started = TRUE, !.rootWatcher = NewWatcher(rootExists),
                  !.opened.root = @ + Added(rootExists)]

\* startSessionWatcher() applied to the sessionWatcher object (the discovery
\* it schedules is counted in swTasks by the caller)
StartedSessionWatcher(sw) ==
  IF sw.started THEN sw
  ELSE [sw EXCEPT !.started = TRUE, !.rootWatcher = NewWatcher(rootExists),
                  !.reconciliationTimer = TRUE,
                  !.opened.root = @ + Added(rootExists), !.opened.timer = @ + 1]

\* the getSessionDirs().then(...) of startSessionWatcher
SessionWatcherDiscovered ==
  /\ swTasks > 0
  /\ swTasks' = swTasks - 1
  /\ sessionWatcher' = [sessionWatcher EXCEPT
                          !.sessionDirWatchers = WatchDirs(@, DiscoveredSet),
                          !.opened.dirs = OpenedDirs(sessionWatcher.sessionDirWatchers, @,
                                                     DiscoveredSet)]
  /\ UNCHANGED <<envVars, forceFullReconciliation, notif, rootNotif, awVars, begun, stops,
                 cacheVars, call, parseVars,
                 wsNotif>>

\* lines 184-189 without the test of the filename
DirtyAfterAnyFile(dirty, d, filename) == dirty \cup {d}

\* lines 184-189: the dirty set after the fs.watch callback of
\* watchSessionDir for `filename` in directory d
DirtyAfter(dirty, d, filename) ==
  IF filename = "events.jsonl" THEN dirty \cup {d} ELSE dirty

\* the fs.watch callback of watchSessionDir for events.jsonl of d
MarkDirty(d) ==
  /\ notif[d]
  /\ sessionWatcher.sessionDirWatchers[d] = "live"
  /\ notif' = [notif EXCEPT ![d] = FALSE]
  /\ sessionWatcher' = [sessionWatcher EXCEPT
                          !.dirtyPaths = DirtyAfter(@, d, "events.jsonl")]
  /\ UNCHANGED <<envVars, forceFullReconciliation, swTasks, rootNotif, awVars, begun, stops,
                 cacheVars, call, parseVars,
                 wsNotif>>

\* the CLI rewrites workspace.yaml of d; the dirty-tracking watcher of the
\* directory is notified
TouchWorkspace(d) ==
  /\ rootExists /\ fs[d].exists
  /\ sessionWatcher.sessionDirWatchers[d] = "live"
  /\ ~wsNotif[d]
  /\ wsNotif' = [wsNotif EXCEPT ![d] = TRUE]
  /\ UNCHANGED <<envVars, sessionWatcher, forceFullReconciliation, swTasks, notif, rootNotif,
                 awVars, begun, stops, cacheVars, call, parseVars>>

\* the fs.watch callback of watchSessionDir for workspace.yaml of d
OtherFileNotified(d) ==
  /\ wsNotif[d]
  /\ sessionWatcher.sessionDirWatchers[d] = "live"
  /\ wsNotif' = [wsNotif EXCEPT ![d] = FALSE]
  /\ sessionWatcher' = [sessionWatcher EXCEPT
                          !.dirtyPaths = DirtyAfter(@, d, "workspace.yaml")]
  /\ UNCHANGED <<envVars, forceFullReconciliation, swTasks, notif, rootNotif, awVars, begun,
                 stops, cacheVars, call, parseVars>>

\* the root watcher's callback for a 'rename' of d: tryWatchNewSessionDir
RootRenamed(d) ==
  /\ d \in rootNotif
  /\ sessionWatcher.rootWatcher = "live"
  /\ rootNotif' = rootNotif \ {d}
  /\ sessionWatcher' =
       IF rootExists /\ fs[d].exists
       THEN [sessionWatcher EXCEPT
               !.sessionDirWatchers = WatchDirs(@, {d}),
               !.opened.dirs = OpenedDirs(sessionWatcher.sessionDirWatchers, @, {d})]
       ELSE sessionWatcher
  /\ UNCHANGED <<envVars, forceFullReconciliation, swTasks, notif, awVars, begun, stops,
                 cacheVars, call, parseVars,
                 wsNotif>>

\* the setInterval callback of startSessionWatcher
TimerFired ==
  /\ sessionWatcher.reconciliationTimer
  /\ forceFullReconciliation' = TRUE
  /\ UNCHANGED <<envVars, sessionWatcher, swTasks, notif, rootNotif, awVars, begun, stops,
                 cacheVars, call, parseVars,
                 wsNotif>>

\* ------------------------------------------------------------------------
\* cache.ts (modelled from the specification)
\* ------------------------------------------------------------------------

\* result-cache TTL, in clock ticks
CACHE_TTL_MS == 2

\* greatest number of aggregate-cache entries kept by eviction
SESSION_AGGREGATE_CACHE_MAX == 1

NoMeta == [present |-> FALSE, mtimeMs |-> 0, sessionId |-> NoStr]

NoEntry == [present |-> FALSE, updatedAt |-> 0, usageRows |-> <<>>, lastAccessed |-> 0]

InitCaches ==
  /\ sessionCache = [lastCheck |-> 0, lastResult |-> <<>>, lastLimit |-> 0, lastSince |-> NoNum]
  /\ sessionMetadataIndex = [d \in Dirs |-> NoMeta]
  /\ sessionAggregateCache = [d \in Dirs |-> NoEntry]
  /\ cachedModel = NoStr
  /\ modelCacheTime = 0

CacheKeys(agg) == { k \in Dirs : agg[k].present }

\* evictSessionAggregateCache(): the caches it can leave.  Entries beyond the
\* maximum are removed, least recently accessed first; which of several
\* entries with the same lastAccessed goes is not determined
EvictSessionAggregateCache(agg) ==
  LET keys   == CacheKeys(agg)
      excess == Cardinality(keys) - SESSION_AGGREGATE_CACHE_MAX
  IN  IF excess <= 0 THEN {agg}
      ELSE { [k \in Dirs |-> IF k \in victims THEN NoEntry ELSE agg[k]] :
               victims \in { v \in SUBSET keys :
                               /\ Cardinality(v) = excess
                               /\ \A x \in v, y \in keys \ v :
                                    agg[x].lastAccessed <= agg[y].lastAccessed } }

\* ------------------------------------------------------------------------
\* parser.ts: getDefaultModel and parseSessionsFromDirs
\* ------------------------------------------------------------------------

\* parseSessionsFromDirs invocations the model follows at a time
CallIds == {1, 2}

\* the invocations of a host that awaits one call before it makes the next
Awaited == {1}

\* greatest value of the clock
MaxClock == 2

\* greatest number of parseSessionsFromDirs calls in a run
MaxCalls == 2

\* line 24, in clock ticks
MODEL_CACHE_TTL_MS == 2

\* the locals of one parseSessionsFromDirs invocation.  pc names the await it
\* is suspended at ("access", "discover", "stat", "parse"), "idle" before the
\* first call and "done" after the return; outcome and sessions are then the
\* way it returned and the list it returned.  fsOps, statted and lookups
\* record what the invocation did: the number of filesystem operations, the
\* directories it stat'd, every aggregate-cache lookup, and the eviction at
\* its end (the lastAccessed of the entries removed and kept, the number
\* kept), and whether getDefaultModel read the log directory
NoCall ==
  [pc |-> "idle", sessionId |-> NoStr, since |-> NoNum, limit |-> NoNum, now |-> 0,
   dirtyPaths |-> {}, needsFullStat |-> FALSE, discovered |-> <<>>, defaultModel |-> NoStr,
   i |-> 0, meta |-> NoMeta, seen |-> {}, sessionDirs |-> <<>>, j |-> 0, sessions |-> <<>>,
   outcome |-> "none", fsOps |-> 0, statted |-> {}, lookups |-> <<>>,
   evicted |-> {}, kept |-> {}, cacheSize |-> 0, scanned |-> FALSE]

InitCalls == call = [c \in CallIds |-> NoCall]

\* const limit = options.limit ?? 100
LimitOf(limit) == IF limit = NoNum THEN 100 ELSE limit

\* lines 258-264 with the root check left out
FastPathIgnoringSince(L, sc, now) ==
  /\ L.sessionId = NoStr
  /\ LimitOf(L.limit) = sc.lastLimit
  /\ now - sc.lastCheck < CACHE_TTL_MS
  /\ Len(sc.lastResult) > 0

\* lines 258-264: the fast-path condition
FastPath(L, sc, now) ==
  /\ L.sessionId = NoStr
  /\ LimitOf(L.limit) = sc.lastLimit
  /\ now - sc.lastCheck < CACHE_TTL_MS
  /\ Len(sc.lastResult) > 0
  /\ sc.lastSince = L.since

\* the states of the log directory in which the scan of lines 35-61 yields
\* no model: fs.readdir raises, no process-*.log file is listed, the latest
\* such file has no line "[INFO] Using default model: ..."
ScanFailures == {"<readdir raises>", "<no process log>", "<no marker line>"}

\* lines 35-58 and utils.ts 89-106: the model the scan of the log directory
\* yields (NoStr: none)
ScanLogs(log) == IF log \in ScanFailures THEN NoStr ELSE log

\* getDefaultModel() setting the cache time also when the scan yields nothing
GetDefaultModelRefreshing(now) ==
  IF cachedModel /= NoStr /\ now - modelCacheTime < MODEL_CACHE_TTL_MS
  THEN [model |-> cachedModel, cachedModel |-> cachedModel, modelCacheTime |-> modelCacheTime,
        scanned |-> FALSE]
  ELSE IF ScanLogs(logModel) /= NoStr
  THEN [model |-> ScanLogs(logModel), cachedModel |-> ScanLogs(logModel),
        modelCacheTime |-> now, scanned |-> TRUE]
  ELSE [model |-> IF cachedModel /= NoStr THEN cachedModel ELSE "unknown",
        cachedModel |-> cachedModel, modelCacheTime |-> now, scanned |-> TRUE]

\* lines 29-64: getDefaultModel() at time now; the model it returns, the
\* cache it leaves and whether it read the log directory
GetDefaultModel(now) ==
  IF cachedModel /= NoStr /\ now - modelCacheTime < MODEL_CACHE_TTL_MS
  THEN [model |-> cachedModel, cachedModel |-> cachedModel, modelCacheTime |-> modelCacheTime,
        scanned |-> FALSE]
  ELSE IF ScanLogs(logModel) /= NoStr
  THEN [model |-> ScanLogs(logModel), cachedModel |-> ScanLogs(logModel),
        modelCacheTime |-> now, scanned |-> TRUE]
  ELSE [model |-> IF cachedModel /= NoStr THEN cachedModel ELSE "unknown",
        cachedModel |-> cachedModel, modelCacheTime |-> modelCacheTime, scanned |-> TRUE]

\* !since || mtimeMs >= since
SinceAdmits(since, mtimeMs) == since = NoNum \/ mtimeMs >= since

\* sessionDirs.push(...) under the since filter
PushDir(L, sessionId, d, mtimeMs) ==
  IF SinceAdmits(L.since, mtimeMs)
  THEN [L EXCEPT !.sessionDirs = Append(@, [sessionId |-> sessionId, dirPath |-> d,
                                          mtimeMs |-> mtimeMs])]
  ELSE L

\* line 298: a directory the index knows under another session id is skipped
SkippedByFilter(L, meta) ==
  L.sessionId /= NoStr /\ meta.present /\ meta.sessionId /= L.sessionId

\* line 300 never taking the branch
TrustsIndexNever(L, d, meta) == FALSE

\* line 300: the index entry is trusted without a stat
TrustsIndex(L, d, meta) == d \notin L.dirtyPaths /\ ~L.needsFullStat /\ meta.present

\* sessionDirs.sort((a, b) => b.mtimeMs - a.mtimeMs), a stable sort
RECURSIVE InsertByMtimeDesc(_, _)
InsertByMtimeDesc(sorted, x) ==
  IF Len(sorted) = 0 THEN <<x>>
  ELSE IF sorted[Len(sorted)].mtimeMs >= x.mtimeMs THEN Append(sorted, x)
  ELSE Append(InsertByMtimeDesc(SubSeq(sorted, 1, Len(sorted) - 1), x), sorted[Len(sorted)])

RECURSIVE SortByMtimeDescRec(_)
SortByMtimeDescRec(s) ==
  IF Len(s) = 0 THEN <<>>
  ELSE InsertByMtimeDesc(SortByMtimeDescRec(SubSeq(s, 1, Len(s) - 1)), s[Len(s)])

\* the sort left out
SortByMtimeNot(s) == s

\* line 354
SortByMtimeDesc(s) == SortByMtimeDescRec(s)

\* line 362 with the mtime comparison left out
AggregateHitAnyMtime(cached, dir) == cached.present

\* line 362: the aggregate-cache entry is used
AggregateHit(cached, dir) == cached.present /\ cached.updatedAt = dir.mtimeMs

\* line 382 left out
AfterEvictionNone(agg) == {agg}

\* line 382: evictSessionAggregateCache() at the end of the pass
AfterEviction(agg) == EvictSessionAggregateCache(agg)

\* lines 384-389 writing only a list that is not empty
ResultCacheAfterNonEmpty(L, sc) ==
  IF L.sessionId = NoStr /\ Len(L.sessions) > 0
  THEN [lastCheck |-> clock, lastResult |-> L.sessions, lastLimit |-> LimitOf(L.limit),
        lastSince |-> L.since]
  ELSE sc

\* lines 384-389 writing the list and the time and leaving limit and since
ResultCacheAfterTorn(L, sc) ==
  IF L.sessionId = NoStr
  THEN [sc EXCEPT !.lastCheck = clock, !.lastResult = L.sessions]
  ELSE sc

\* lines 384-389: the result cache after the pass
ResultCacheAfter(L, sc) ==
  IF L.sessionId = NoStr
  THEN [lastCheck |-> clock, lastResult |-> L.sessions, lastLimit |-> LimitOf(L.limit),
        lastSince |-> L.since]
  ELSE sc

\* The module state a pass works on between two awaits: c its locals, sw the
\* sessionWatcher object, idx the metadata index, agg the aggregate cache.

\* lines 360-380 ending the loop once the list holds `limit` rows
RECURSIVE RunAggregateLimited(_)
RunAggregateLimited(M) ==
  LET L == M.c
  IN  IF L.j > Len(L.sessionDirs) \/ Len(L.sessions) >= LimitOf(L.limit)
      THEN [M EXCEPT !.c.pc = "finish"]
      ELSE LET dir    == L.sessionDirs[L.j]
               cached == M.agg[dir.sessionId]
               hit    == AggregateHit(cached, dir)
               look   == [dir |-> dir.dirPath, hit |-> hit,
                          present |-> cached.present, updatedAt |-> cached.updatedAt,
                          heldMtime |-> dir.mtimeMs, diskMtime |-> fs[dir.dirPath].mtime,
                          parsed |-> FALSE]
           IN  IF hit
               THEN RunAggregateLimited([M EXCEPT
                      !.agg[dir.sessionId].lastAccessed = L.now,
                      !.c.sessions = @ \o cached.usageRows,
                      !.c.lookups = Append(@, look),
                      !.c.j = @ + 1])
               ELSE [M EXCEPT !.c.pc = "parse", !.c.lookups = Append(@, look),
                              !.c.fsOps = @ + 1]

\* lines 360-380: the aggregate loop from session c.j on, up to the next
\* parseSessionDirRows (pc "parse") or to its end (pc "finish")
RECURSIVE RunAggregate(_)
RunAggregate(M) ==
  LET L == M.c
  IN  IF L.j > Len(L.sessionDirs) THEN [M EXCEPT !.c.pc = "finish"]
      ELSE LET dir    == L.sessionDirs[L.j]
               cached == M.agg[dir.sessionId]
               hit    == AggregateHit(cached, dir)
               look   == [dir |-> dir.dirPath, hit |-> hit,
                          present |-> cached.present, updatedAt |-> cached.updatedAt,
                          heldMtime |-> dir.mtimeMs, diskMtime |-> fs[dir.dirPath].mtime,
                          parsed |-> FALSE]
           IN  IF hit
               THEN RunAggregate([M EXCEPT
                      !.agg[dir.sessionId].lastAccessed = L.now,
                      !.c.sessions = @ \o cached.usageRows,
                      !.c.lookups = Append(@, look),
                      !.c.j = @ + 1])
               ELSE [M EXCEPT !.c.pc = "parse", !.c.lookups = Append(@, look),
                              !.c.fsOps = @ + 1]

\* lines 347-352 left out
PrunedNothing(idx, seen) == idx

\* lines 347-352: the index without the entries of the paths not seen
Pruned(idx, seen) == [d \in Dirs |-> IF d \in seen THEN idx[d] ELSE NoMeta]

\* lines 347-358: prune the index, sort the session list, enter the
\* aggregate loop
AfterDirLoop(M) ==
  RunAggregate([M EXCEPT
    !.idx = Pruned(M.idx, M.c.seen),
    !.c.sessionDirs = SortByMtimeDesc(@),
    !.c.j = 1])

\* lines 287-345: the directory loop from directory c.i on, up to the next
\* fs.stat (pc "stat") or to its end
RECURSIVE RunDirLoop(_)
RunDirLoop(M) ==
  LET L == M.c
  IN  IF L.i > Len(L.discovered) THEN AfterDirLoop(M)
      ELSE LET d    == L.discovered[L.i]
               meta == M.idx[d]
               M1   == [M EXCEPT !.sw.sessionDirWatchers = WatchDirs(@, {d}),
                                 !.sw.opened.dirs = OpenedDirs(M.sw.sessionDirWatchers, @, {d}),
                                 !.c.seen = @ \cup {d}]
           IN  IF SkippedByFilter(L, meta)
               THEN RunDirLoop([M1 EXCEPT !.c.i = @ + 1])
               ELSE IF TrustsIndex(L, d, meta)
               THEN RunDirLoop([M1 EXCEPT
                      !.c = [PushDir(M1.c, meta.sessionId, d, meta.mtimeMs) EXCEPT !.i = @ + 1]])
               ELSE [M1 EXCEPT !.c.pc = "stat", !.c.meta = meta, !.c.fsOps = @ + 1]

\* lines 316-320 leaving the index entry of the vanished file in place
StatFailedKeepsEntry(M, L1, d) == [M EXCEPT !.c = L1]

\* lines 316-320: fs.stat of the event log of d failed: the index entry is
\* deleted and the loop continues with the next directory
StatFailed(M, L1, d) == [M EXCEPT !.c = L1, !.idx[d] = NoMeta]

\* lines 314-345: the pass resumes from fs.stat of directory c.i
AfterStat(M) ==
  LET L    == M.c
      d    == L.discovered[L.i]
      meta == L.meta
      mt   == fs[d].mtime
      L1   == [L EXCEPT !.statted = @ \cup {d}, !.i = @ + 1, !.meta = NoMeta]
  IN  IF ~(rootExists /\ fs[d].exists)
      THEN RunDirLoop(StatFailed(M, L1, d))
      ELSE IF meta.present /\ meta.mtimeMs = mt
      THEN IF L.sessionId /= NoStr /\ meta.sessionId /= L.sessionId
           THEN RunDirLoop([M EXCEPT !.c = L1])
           ELSE RunDirLoop([M EXCEPT !.c = PushDir(L1, meta.sessionId, d, meta.mtimeMs)])
      ELSE LET M1 == [M EXCEPT !.idx[d] = [present |-> TRUE, mtimeMs |-> mt, sessionId |-> d]]
           IN  IF L.sessionId /= NoStr /\ d /= L.sessionId
               THEN RunDirLoop([M1 EXCEPT !.c = L1])
               ELSE RunDirLoop([M1 EXCEPT !.c = PushDir(L1, d, d, mt)])

\* lines 371-379 with the rows parsed without the default model of the pass
AfterParseNoDefault(M) ==
  LET L    == M.c
      dir  == L.sessionDirs[L.j]
      rows == ParseSessionDirRows(EventsOnDisk(dir.dirPath), WorkspaceOf(dir.dirPath),
                                  dir.dirPath, dir.mtimeMs, "unknown")
  IN  RunAggregate([M EXCEPT
        !.agg[dir.sessionId] = [present |-> TRUE, updatedAt |-> dir.mtimeMs,
                                usageRows |-> rows, lastAccessed |-> L.now],
        !.c.sessions = @ \o rows,
        !.c.lookups[Len(L.lookups)].parsed = TRUE,
        !.c.j = @ + 1])

\* lines 371-379: the pass resumes from parseSessionDirRows of session c.j
AfterParse(M) ==
  LET L    == M.c
      dir  == L.sessionDirs[L.j]
      rows == ParseSessionDirRows(EventsOnDisk(dir.dirPath), WorkspaceOf(dir.dirPath),
                                  dir.dirPath, dir.mtimeMs, L.defaultModel)
  IN  RunAggregate([M EXCEPT
        !.agg[dir.sessionId] = [present |-> TRUE, updatedAt |-> dir.mtimeMs,
                                usageRows |-> rows, lastAccessed |-> L.now],
        !.c.sessions = @ \o rows,
        !.c.lookups[Len(L.lookups)].parsed = TRUE,
        !.c.j = @ + 1])

\* the call has returned: its locals are gone, what it was asked, what it
\* returned and what it did are kept
Returned(L, outcome) ==
  [NoCall EXCEPT !.pc = "done", !.outcome = outcome, !.sessionId = L.sessionId,
                 !.since = L.since, !.limit = L.limit, !.now = L.now,
                 !.sessionDirs = L.sessionDirs, !.sessions = L.sessions,
                 !.defaultModel = L.defaultModel, !.scanned = L.scanned,
                 !.fsOps = L.fsOps, !.statted = L.statted, !.lookups = L.lookups,
                 !.evicted = L.evicted, !.kept = L.kept, !.cacheSize = L.cacheSize]

Machine(c) ==
  [c |-> call[c], sw |-> sessionWatcher, idx |-> sessionMetadataIndex,
   agg |-> sessionAggregateCache]

\* the module state after the pass of call c ran from one await to the next
\* (M), or to its return (lines 382-404)
Commit(c, M) ==
  /\ sessionWatcher' = M.sw
  /\ sessionMetadataIndex' = M.idx
  /\ IF M.c.pc = "finish"
     THEN /\ sessionAggregateCache' \in AfterEviction(M.agg)
          /\ sessionCache' = ResultCacheAfter(M.c, sessionCache)
          /\ LET gone == CacheKeys(M.agg) \ CacheKeys(sessionAggregateCache')
                 left == CacheKeys(sessionAggregateCache')
             IN  call' = [call EXCEPT ![c] =
                   Returned([M.c EXCEPT !.evicted = { M.agg[k].lastAccessed : k \in gone },
                                        !.kept = { M.agg[k].lastAccessed : k \in left },
                                        !.cacheSize = Cardinality(left)],
                            "slow")]
     ELSE /\ sessionAggregateCache' = M.agg
          /\ sessionCache' = sessionCache
          /\ call' = [call EXCEPT ![c] = M.c]

\* the options a call is made with
CallOptions ==
  { [sessionId |-> NoStr, since |-> NoNum, limit |-> NoNum],
    [sessionId |-> NoStr, since |-> 2, limit |-> NoNum],
    [sessionId |-> NoStr, since |-> NoNum, limit |-> 5],
    [sessionId |-> "d1", since |-> NoNum, limit |-> NoNum],
    [sessionId |-> "sX", since |-> NoNum, limit |-> NoNum] }

\* parseSessionsFromDirs(options, ctx) is called and runs to fs.access
Called(c, sessionId, since, limit) ==
  /\ call[c].pc \in {"idle", "done"}
  /\ call' = [call EXCEPT ![c] = [NoCall EXCEPT !.pc = "access", !.sessionId = sessionId,
                                                !.since = since, !.limit = limit,
                                                !.fsOps = 1]]
  /\ UNCHANGED <<envVars, swVars, awVars, stops, cacheVars, parseVars>>

\* one of the MaxCalls calls of a run
BeginCall(c, sessionId, since, limit) ==
  /\ begun < MaxCalls
  /\ begun' = begun + 1
  /\ Called(c, sessionId, since, limit)

\* a call of a host that never stops calling and calls only when the result
\* cache has expired
LiveCall(c, sessionId, since, limit) ==
  /\ clock - sessionCache.lastCheck >= CACHE_TTL_MS
  /\ UNCHANGED begun
  /\ Called(c, sessionId, since, limit)

\* lines 248-284: the call resumes from fs.access: the root check,
\* startSessionWatcher, the fast path, the dirty snapshot, the force flag
AfterAccess(c) ==
  /\ call[c].pc = "access"
  /\ IF ~rootExists
     THEN /\ call' = [call EXCEPT ![c] = Returned(call[c], "empty")]
          /\ UNCHANGED <<sessionWatcher, swTasks, forceFullReconciliation>>
     ELSE /\ swTasks' = IF sessionWatcher.started THEN swTasks ELSE swTasks + 1
          /\ IF FastPath(call[c], sessionCache, clock)
             THEN /\ call' = [call EXCEPT ![c] =
                            Returned([call[c] EXCEPT !.now = clock,
                                                     !.sessions = sessionCache.lastResult],
                                     "fast")]
                  /\ sessionWatcher' = StartedSessionWatcher(sessionWatcher)
                  /\ UNCHANGED forceFullReconciliation
             ELSE /\ call' = [call EXCEPT ![c].pc = "discover", ![c].now = clock,
                                          ![c].dirtyPaths = sessionWatcher.dirtyPaths,
                                          ![c].needsFullStat = forceFullReconciliation,
                                          ![c].fsOps = @ + 1]
                  /\ sessionWatcher' = [StartedSessionWatcher(sessionWatcher)
                                          EXCEPT !.dirtyPaths = {}]
                  /\ forceFullReconciliation' = FALSE
  /\ UNCHANGED <<envVars, notif, rootNotif, awVars, begun, stops, cacheVars, parseVars,
                 wsNotif>>

\* lines 284-345: the call resumes from getSessionDirs, resolves the default
\* model and runs the directory loop
AfterDiscovery(c) ==
  /\ call[c].pc = "discover"
  /\ LET dm == GetDefaultModel(clock)
         M  == [Machine(c) EXCEPT !.c.discovered = GetSessionDirs,
                                  !.c.defaultModel = dm.model,
                                  !.c.scanned = dm.scanned,
                                  !.c.i = 1]
     IN  /\ cachedModel' = dm.cachedModel
         /\ modelCacheTime' = dm.modelCacheTime
         /\ Commit(c, RunDirLoop(M))
  /\ UNCHANGED <<envVars, forceFullReconciliation, swTasks, notif, rootNotif, awVars, begun, stops,
                 parseVars,
                 wsNotif>>

StatDone(c) ==
  /\ call[c].pc = "stat"
  /\ Commit(c, AfterStat(Machine(c)))
  /\ UNCHANGED <<envVars, forceFullReconciliation, swTasks, notif, rootNotif, awVars, begun, stops,
                 cachedModel, modelCacheTime, parseVars,
                 wsNotif>>

ParseDone(c) ==
  /\ call[c].pc = "parse"
  /\ Commit(c, AfterParse(Machine(c)))
  /\ UNCHANGED <<envVars, forceFullReconciliation, swTasks, notif, rootNotif, awVars, begun, stops,
                 cachedModel, modelCacheTime, parseVars,
                 wsNotif>>

\* ------------------------------------------------------------------------
\* The environment of a pass
\* ------------------------------------------------------------------------

\* one tick of the clock; a pass takes less than a tick
Tick ==
  /\ clock < MaxClock
  /\ \A c \in CallIds : call[c].pc \in {"idle", "done"}
  /\ clock' = clock + 1
  /\ UNCHANGED <<rootExists, fs, logModel, swVars, awVars, begun, stops, cacheVars, call,
                 parseVars>>

\* a time one tick further in the past, as far back as the clock reaches
Earlier(t) == IF t > 0 THEN t - 1 ELSE 0

\* one tick of a clock that never stops: at MaxClock the clock stands and
\* every stored time moves one tick into the past
TickLive ==
  /\ \A c \in CallIds : call[c].pc \in {"idle", "done"}
  /\ IF clock < MaxClock
     THEN /\ clock' = clock + 1
          /\ UNCHANGED <<cacheVars, call>>
     ELSE /\ clock' = clock
          /\ sessionCache' = [sessionCache EXCEPT !.lastCheck = Earlier(@)]
          /\ modelCacheTime' = Earlier(modelCacheTime)
          /\ sessionAggregateCache' =
               [k \in Dirs |-> [sessionAggregateCache[k] EXCEPT !.lastAccessed = Earlier(@)]]
          /\ call' = [c \in CallIds |->
                        [call[c] EXCEPT !.now = Earlier(@),
                                        !.evicted = { Earlier(t) : t \in @ },
                                        !.kept = { Earlier(t) : t \in @ }]]
          /\ UNCHANGED <<sessionMetadataIndex, cachedModel>>
  /\ UNCHANGED <<rootExists, fs, logModel, swVars, awVars, begun, stops, parseVars>>

\* a session directory is removed with its events.jsonl; its watchers stay
\* registered and report nothing any more
DeleteDir(d) ==
  /\ rootExists /\ fs[d].exists
  /\ fs' = [fs EXCEPT ![d].exists = FALSE, ![d].size = 0]
  /\ sessionWatcher' = [sessionWatcher EXCEPT
       !.sessionDirWatchers[d] = IF @ = "live" THEN "dead" ELSE @]
  /\ activityWatcher' = [activityWatcher EXCEPT
       !.sessionDirWatchers[d] = IF @ = "live" THEN "dead" ELSE @]
  /\ notif' = [notif EXCEPT ![d] = FALSE]
  /\ anotif' = [anotif EXCEPT ![d] = FALSE]
  /\ wsNotif' = [wsNotif EXCEPT ![d] = FALSE]
  /\ UNCHANGED <<rootExists, clock, logModel, forceFullReconciliation, swTasks, rootNotif,
                 awTasks, primeTasks, tails, delivered, reads, begun, stops, cacheVars, call,
                 parseVars,
                 arootNotif>>

\* the CLI starts a session in directory d: the directory appears with the
\* first line of its events.jsonl; the root watcher is notified
CreateDir(d) ==
  /\ rootExists /\ ~fs[d].exists
  /\ fs[d].mtime < MaxMtime /\ WritesLeft(fs)
  /\ fs' = [fs EXCEPT ![d] = [exists |-> TRUE, mtime |-> @.mtime + 1, size |-> LineBytes]]
  /\ rootNotif' = IF sessionWatcher.rootWatcher = "live" THEN rootNotif \cup {d} ELSE rootNotif
  /\ arootNotif' = IF activityWatcher.rootWatcher = "live" THEN arootNotif \cup {d}
                   ELSE arootNotif
  /\ UNCHANGED <<rootExists, clock, logModel, sessionWatcher, forceFullReconciliation, swTasks,
                 notif, activityWatcher, awTasks, primeTasks, anotif, tails, delivered, reads,
                 begun, stops, cacheVars, call, parseVars,
                 wsNotif>>

\* the session-state root is removed with everything in it
RmRoot ==
  /\ rootExists
  /\ rootExists' = FALSE
  /\ fs' = [d \in Dirs |-> [fs[d] EXCEPT !.exists = FALSE, !.size = 0]]
  /\ sessionWatcher' = [sessionWatcher EXCEPT
       !.sessionDirWatchers = [d \in Dirs |-> IF @[d] = "live" THEN "dead" ELSE @[d]],
       !.rootWatcher = IF @ = "live" THEN "dead" ELSE @]
  /\ activityWatcher' = [activityWatcher EXCEPT
       !.sessionDirWatchers = [d \in Dirs |-> IF @[d] = "live" THEN "dead" ELSE @[d]],
       !.rootWatcher = IF @ = "live" THEN "dead" ELSE @]
  /\ notif' = [d \in Dirs |-> FALSE]
  /\ anotif' = [d \in Dirs |-> FALSE]
  /\ rootNotif' = {}
  /\ arootNotif' = {}
  /\ wsNotif' = [d \in Dirs |-> FALSE]
  /\ UNCHANGED <<clock, logModel, forceFullReconciliation, swTasks, awTasks, primeTasks, tails,
                 delivered, reads, begun, stops, cacheVars, call, parseVars>>

\* the session-state root is created, empty
MkRoot ==
  /\ ~rootExists
  /\ rootExists' = TRUE
  /\ UNCHANGED <<fs, clock, logModel, swVars, awVars, begun, stops, cacheVars, call, parseVars>>

\* ------------------------------------------------------------------------
\* Specifications
\* ------------------------------------------------------------------------

InitIdleParse ==
  /\ pReadable = TRUE
  /\ pLines = <<>>
  /\ pMtime = 2
  /\ pRows = <<"none">>

Init == InitEnv /\ InitWatchers /\ InitCaches /\ InitCalls /\ InitIdleParse

Callbacks == {"cb1", "cb2"}

\* the tailing watcher and the CLI writing the logs
NextTail ==
  \/ \E cb \in Callbacks : StartActivityWatch(cb)
  \/ ActivityDiscovered
  \/ \E d \in Dirs : PrimeSessionOffset(d)
  \/ \E t \in TailIds, d \in Dirs : TailStart(t, d)
  \/ \E t \in TailIds : TailStat(t)
  \/ \E t \in TailIds : TailRead(t)
  \/ \E t \in TailIds : TailDeliver(t)
  \/ \E d \in Dirs : AppendLine(d)
  \/ StopActivityWatch

SpecTail == Init /\ [][NextTail]_vars

\* parseSessionsFromDirs calls, the dirty-tracking watcher, and the CLI and
\* the user changing the session-state directory
Next ==
  \/ \E c \in Awaited, o \in CallOptions : BeginCall(c, o.sessionId, o.since, o.limit)
  \/ \E c \in CallIds : AfterAccess(c)
  \/ \E c \in CallIds : AfterDiscovery(c)
  \/ \E c \in CallIds : StatDone(c)
  \/ \E c \in CallIds : ParseDone(c)
  \/ SessionWatcherDiscovered
  \/ \E d \in Dirs : MarkDirty(d)
  \/ TimerFired
  \/ Tick
  \/ \E d \in Dirs : AppendLine(d)

Spec == Init /\ [][Next]_vars

\* parseSessionsFromDirs calls while the plugin is stopped and restarted and
\* session directories, or the whole session-state root, come and go
NextLifecycle ==
  \/ \E c \in Awaited, o \in CallOptions : BeginCall(c, o.sessionId, o.since, o.limit)
  \/ \E c \in CallIds : AfterAccess(c)
  \/ \E c \in CallIds : AfterDiscovery(c)
  \/ \E c \in CallIds : StatDone(c)
  \/ \E c \in CallIds : ParseDone(c)
  \/ SessionWatcherDiscovered
  \/ TimerFired
  \/ StopActivityWatch
  \/ Tick
  \/ RmRoot
  \/ MkRoot

SpecLifecycle == Init /\ [][NextLifecycle]_vars

\* parseSessionsFromDirs calls while session directories come and go and the
\* reconciliation timer fires
NextDirs ==
  \/ \E c \in Awaited, o \in CallOptions : BeginCall(c, o.sessionId, o.since, o.limit)
  \/ \E c \in CallIds : AfterAccess(c)
  \/ \E c \in CallIds : AfterDiscovery(c)
  \/ \E c \in CallIds : StatDone(c)
  \/ \E c \in CallIds : ParseDone(c)
  \/ SessionWatcherDiscovered
  \/ \E d \in Dirs : RootRenamed(d)
  \/ \E d \in Dirs : DeleteDir(d)
  \/ \E d \in Dirs : CreateDir(d)
  \/ TimerFired

SpecDirs == Init /\ [][NextDirs]_vars

\* startSessionWatcher() called by the host itself
StartSessionWatcher ==
  /\ sessionWatcher' = StartedSessionWatcher(sessionWatcher)
  /\ swTasks' = IF sessionWatcher.started THEN swTasks ELSE swTasks + 1
  /\ UNCHANGED <<envVars, forceFullReconciliation, notif, rootNotif, awVars, begun, stops,
                 cacheVars, call, parseVars,
                 wsNotif>>

\* the host registers its first callback
FirstStart == ~activityWatcher.started /\ StartActivityWatch("cb1")

\* the host registers another callback while the watch is running
Replace == activityWatcher.started /\ StartActivityWatch("cb2")

\* both watchers started, restarted and stopped by the host while it calls
\* parseSessionsFromDirs and the session-state root goes and comes back
NextWatch ==
  \/ \E c \in Awaited : BeginCall(c, NoStr, NoNum, NoNum)
  \/ \E c \in CallIds : AfterAccess(c)
  \/ \E c \in CallIds : AfterDiscovery(c)
  \/ \E c \in CallIds : StatDone(c)
  \/ \E c \in CallIds : ParseDone(c)
  \/ StartSessionWatcher
  \/ SessionWatcherDiscovered
  \/ FirstStart
  \/ Replace
  \/ ActivityDiscovered
  \/ \E d \in Dirs : PrimeSessionOffset(d)
  \/ StopActivityWatch
  \/ RmRoot
  \/ MkRoot

SpecWatch == Init /\ [][NextWatch]_vars

\* the CLI is started again with another default model: a newer process log
\* names it
NewProcessLog ==
  /\ logModel = "gpt-a"
  /\ logModel' = "gpt-b"
  /\ UNCHANGED <<rootExists, fs, clock, swVars, awVars, begun, stops, cacheVars, call, parseVars>>

\* unfiltered parseSessionsFromDirs calls while time passes, the timer fires,
\* the CLI writes to the log of d1 and is started again with another model
NextModel ==
  \/ \E c \in Awaited : BeginCall(c, NoStr, NoNum, NoNum)
  \/ \E c \in CallIds : AfterAccess(c)
  \/ \E c \in CallIds : AfterDiscovery(c)
  \/ \E c \in CallIds : StatDone(c)
  \/ \E c \in CallIds : ParseDone(c)
  \/ TimerFired
  \/ Tick
  \/ AppendLine("d1")
  \/ NewProcessLog

SpecModel == Init /\ [][NextModel]_vars

\* parseSessionsFromDirs calls while the CLI writes to the event logs and to
\* workspace.yaml of the sessions and the dirty-tracking watcher is notified
NextDirty ==
  \/ \E c \in Awaited, o \in CallOptions : BeginCall(c, o.sessionId, o.since, o.limit)
  \/ \E c \in CallIds : AfterAccess(c)
  \/ \E c \in CallIds : AfterDiscovery(c)
  \/ \E c \in CallIds : StatDone(c)
  \/ \E c \in CallIds : ParseDone(c)
  \/ SessionWatcherDiscovered
  \/ \E d \in Dirs : MarkDirty(d)
  \/ \E d \in Dirs : AppendLine(d)
  \/ \E d \in Dirs : TouchWorkspace(d)
  \/ \E d \in Dirs : OtherFileNotified(d)

SpecDirty == Init /\ [][NextDirty]_vars

\* the options of the calls of a host that does not await its calls
OverlapOptions ==
  { [sessionId |-> NoStr, since |-> NoNum, limit |-> NoNum],
    [sessionId |-> NoStr, since |-> NoNum, limit |-> 5],
    [sessionId |-> "d1", since |-> NoNum, limit |-> NoNum] }

\* a call made after the calls before it have returned
AwaitedCall ==
  \E c \in Awaited, o \in OverlapOptions : BeginCall(c, o.sessionId, o.since, o.limit)

\* a call made while the call before it is suspended
OverlappingCall ==
  /\ \A a \in Awaited : call[a].pc \notin {"idle", "done"}
  /\ \E c \in CallIds \ Awaited, o \in OverlapOptions :
       BeginCall(c, o.sessionId, o.since, o.limit)

\* a host that calls parseSessionsFromDirs with and without awaiting the call
\* before, while the session directory d2 goes and comes back
NextOverlap ==
  \/ AwaitedCall
  \/ OverlappingCall
  \/ \E c \in CallIds : AfterAccess(c)
  \/ \E c \in CallIds : AfterDiscovery(c)
  \/ \E c \in CallIds : StatDone(c)
  \/ \E c \in CallIds : ParseDone(c)
  \/ DeleteDir("d2")
  \/ CreateDir("d2")

SpecOverlap == Init /\ [][NextOverlap]_vars

\* a change notification handled while no processEventsDelta is running
TailStartAlone(d) ==
  /\ \A t \in TailIds : tails[t].pc = "idle"
  /\ \E t \in TailIds : TailStart(t, d)

\* the tailing watcher with one callback while the CLI writes whole lines and
\* parts of lines and the logs are truncated; the notifications of a log are
\* handled one after the other
NextOffsets ==
  \/ FirstStart
  \/ ActivityDiscovered
  \/ \E d \in Dirs : PrimeSessionOffset(d)
  \/ \E d \in Dirs : TailStartAlone(d)
  \/ \E t \in TailIds : TailStat(t)
  \/ \E t \in TailIds : TailRead(t)
  \/ \E t \in TailIds : TailDeliver(t)
  \/ \E d \in Dirs : AppendLine(d)
  \/ \E d \in Dirs : AppendPartial(d)
  \/ \E d \in Dirs : TruncateLog(d)

SpecOffsets == Init /\ [][NextOffsets]_vars

\* the same while the logs only grow
NextChunks ==
  \/ FirstStart
  \/ ActivityDiscovered
  \/ \E d \in Dirs : PrimeSessionOffset(d)
  \/ \E d \in Dirs : TailStartAlone(d)
  \/ \E t \in TailIds : TailStat(t)
  \/ \E t \in TailIds : TailRead(t)
  \/ \E t \in TailIds : TailDeliver(t)
  \/ \E d \in Dirs : AppendLine(d)
  \/ \E d \in Dirs : AppendPartial(d)

SpecChunks == Init /\ [][NextChunks]_vars

\* the log directory changes: another model is named last, the directory
\* cannot be read, holds no process log, or the latest log has no marker
LogsChange(log) ==
  /\ log /= logModel
  /\ logModel' = log
  /\ UNCHANGED <<rootExists, fs, clock, swVars, awVars, begun, stops, cacheVars, call, parseVars>>

\* unfiltered parseSessionsFromDirs calls while time passes and the log
\* directory changes
NextLogs ==
  \/ \E c \in Awaited : BeginCall(c, NoStr, NoNum, NoNum)
  \/ \E c \in CallIds : AfterAccess(c)
  \/ \E c \in CallIds : AfterDiscovery(c)
  \/ \E c \in CallIds : StatDone(c)
  \/ \E c \in CallIds : ParseDone(c)
  \/ Tick
  \/ \E log \in {"gpt-a", "gpt-b"} \cup ScanFailures : LogsChange(log)

SpecLogs == Init /\ [][NextLogs]_vars

\* the limits a call is made with: none (100), 1 and 5
LimitOptions ==
  { [sessionId |-> NoStr, since |-> NoNum, limit |-> NoNum],
    [sessionId |-> NoStr, since |-> NoNum, limit |-> 1],
    [sessionId |-> NoStr, since |-> NoNum, limit |-> 5],
    [sessionId |-> "d2", since |-> NoNum, limit |-> 1] }

\* parseSessionsFromDirs calls with different limits while both logs grow
NextLimit ==
  \/ \E c \in Awaited, o \in LimitOptions : BeginCall(c, o.sessionId, o.since, o.limit)
  \/ \E c \in CallIds : AfterAccess(c)
  \/ \E c \in CallIds : AfterDiscovery(c)
  \/ \E c \in CallIds : StatDone(c)
  \/ \E c \in CallIds : ParseDone(c)
  \/ \E d \in Dirs : AppendLine(d)
  \/ Tick

SpecLimit == Init /\ [][NextLimit]_vars

\* the root watcher's callback of startActivityWatch for a 'rename' of d
\* (lines 255-261): watchSessionDirForActivity and primeSessionOffset
ActivityRootRenamed(d) ==
  /\ d \in arootNotif
  /\ activityWatcher.rootWatcher = "live"
  /\ arootNotif' = arootNotif \ {d}
  /\ activityWatcher' = [activityWatcher EXCEPT
                           !.sessionDirWatchers = WatchDirs(@, {d}),
                           !.opened.dirs = OpenedDirs(activityWatcher.sessionDirWatchers, @, {d})]
  /\ primeTasks' = [primeTasks EXCEPT ![d] = @ + 1]
  /\ UNCHANGED <<envVars, swVars, awTasks, anotif, tails, delivered, reads, begun, stops,
                 cacheVars, call, parseVars>>

\* the host calls startActivityWatch before any session directory exists
StartBeforeSessions ==
  /\ \A d \in Dirs : ~fs[d].exists
  /\ StartActivityWatch("cb1")

\* no registration of the tailing watcher is pending
Settled ==
  /\ activityWatcher.started /\ awTasks = 0 /\ arootNotif = {}
  /\ \A d \in Dirs : primeTasks[d] = 0

\* the CLI appends a line to the log of d once the tailing watcher has
\* handled everything it was notified of
AppendSettled(d) == Settled /\ AppendLine(d)

\* the session-state root may be missing and no session exists yet
InitAppear ==
  /\ rootExists \in BOOLEAN
  /\ fs = [d \in Dirs |-> [exists |-> FALSE, mtime |-> 1, size |-> 0]]
  /\ clock = 0
  /\ logModel = "gpt-a"
  /\ InitWatchers /\ InitCaches /\ InitCalls /\ InitIdleParse

\* the tailing watcher started before the first session: the root and the
\* session directories appear afterwards and the CLI writes to the logs
NextAppear ==
  \/ StartBeforeSessions
  \/ ActivityDiscovered
  \/ \E d \in Dirs : ActivityRootRenamed(d)
  \/ \E d \in Dirs : PrimeSessionOffset(d)
  \/ \E t \in TailIds, d \in Dirs : TailStart(t, d)
  \/ \E t \in TailIds : TailStat(t)
  \/ \E t \in TailIds : TailRead(t)
  \/ \E t \in TailIds : TailDeliver(t)
  \/ MkRoot
  \/ \E d \in Dirs : CreateDir(d)
  \/ \E d \in Dirs : AppendSettled(d)

\* every callback the watcher was promised runs: the discovery, the root
\* watcher's callback, primeSessionOffset, and processEventsDelta to its end
FairnessAppear ==
  /\ WF_vars(ActivityDiscovered)
  /\ \A d \in Dirs : WF_vars(ActivityRootRenamed(d))
  /\ \A d \in Dirs : WF_vars(PrimeSessionOffset(d))
  /\ \A d \in Dirs : WF_vars(\E t \in TailIds : TailStart(t, d))
  /\ \A t \in TailIds : WF_vars(TailStat(t)) /\ WF_vars(TailRead(t)) /\ WF_vars(TailDeliver(t))

SpecAppear == InitAppear /\ [][NextAppear]_vars /\ FairnessAppear

\* the options of the calls of a host that never stops calling
LiveOptions ==
  { [sessionId |-> NoStr, since |-> NoNum, limit |-> NoNum],
    [sessionId |-> "d2", since |-> NoNum, limit |-> NoNum] }

UnfilteredCall == \E c \in Awaited : LiveCall(c, NoStr, NoNum, NoNum)

FilteredCall == \E c \in Awaited : LiveCall(c, "d2", NoNum, NoNum)

PassStep ==
  \E c \in CallIds : AfterAccess(c) \/ AfterDiscovery(c) \/ StatDone(c) \/ ParseDone(c)

\* a host that keeps calling after the TTL, unfiltered and filtered, while
\* the reconciliation timer keeps firing and the CLI writes to the log of d1;
\* no change notification is delivered
NextLive ==
  \/ UnfilteredCall
  \/ FilteredCall
  \/ PassStep
  \/ SessionWatcherDiscovered
  \/ TimerFired
  \/ TickLive
  \/ AppendLine("d1")

\* no call is suspended
AllReturned == \A c \in CallIds : call[c].pc \in {"idle", "done"}

\* every call runs to its return (PassStep is enabled exactly while a call is
\* suspended, so this is weak fairness of PassStep), the clock and the timer
\* never stop, and calls of both kinds keep arriving
Fairness ==
  /\ []<>AllReturned
  /\ WF_vars(SessionWatcherDiscovered)
  /\ WF_vars(TimerFired)
  /\ SF_vars(TickLive)
  /\ SF_vars(UnfilteredCall)
  /\ SF_vars(FilteredCall)

SpecLive == Init /\ [][NextLive]_vars /\ Fairness

\* ------------------------------------------------------------------------
\* SpecParse: parseSessionDirRows over bounded event logs
\* ------------------------------------------------------------------------

MaxLines == 3

ParseDefaultModel == "default-model"

ParseDirName == "dir-p"

MessageIds == {"m1", "m2"}

\* the lines a log under test is made of
ParseAlphabet ==
       { AssistantMessage(id, 6, NoStr, ts, NoUsage) : id \in MessageIds, ts \in {NoTs, 1, 3} }
  \cup { AssistantMessage(id, 1, "own-model", ts, NoUsage) : id \in MessageIds, ts \in {BadTs, 3} }
  \cup { AssistantMessage(id, 6, NoStr, 1, Usage(7, 3, 2, 0)) : id \in MessageIds }
  \cup { ModelChange(m, ts) : m \in {"X", "Y"}, ts \in {BadTs, 1, 2} }
  \cup { ModelChange("", 1), AssistantMessage("", 6, NoStr, 1, NoUsage),
         OtherEvent("user.message", 1), MalformedLine }
  \cup { AssistantMessage("m1", 0, NoStr, 1, NoUsage),
         AssistantMessage("m1", 5, NoStr, 1, Usage(0, 3, 2, 1)),
         AssistantMessage("m2", 9, NoStr, 1, Usage(NoNum, 3, 2, 1)),
         AssistantMessage("m2", 0, NoStr, 1, Usage(4, NoNum, 0, 5)) }

InitParse ==
  /\ InitEnv /\ InitWatchers /\ InitCaches /\ InitCalls
  /\ pReadable \in BOOLEAN
  /\ pLines = <<>>
  /\ pMtime \in {2, 4}
  /\ pRows = <<"none">>

\* the CLI appends one line to the log under test, creating the log when it
\* is missing
WriteLine(l) ==
  /\ Len(pLines) < MaxLines
  /\ pLines' = Append(pLines, l)
  /\ pReadable' = TRUE
  /\ pRows' = <<"none">>
  /\ UNCHANGED <<pMtime, envVars, swVars, awVars, begun, stops, cacheVars, call>>

\* parseSessionDirRows(dir, pMtime, ParseDefaultModel): <<"rows", the list it
\* returns>> or <<"raised">>
ParseDir ==
  /\ pRows = <<"none">>
  /\ pRows' = ParseOutcome(pReadable, pLines, NoWorkspace, ParseDirName, pMtime,
                           ParseDefaultModel)
  /\ UNCHANGED <<pReadable, pLines, pMtime, envVars, swVars, awVars, begun, stops, cacheVars,
                 call>>

NextParse ==
  \/ \E l \in ParseAlphabet : WriteLine(l)
  \/ ParseDir

SpecParse == InitParse /\ [][NextParse]_vars

\* ------------------------------------------------------------------------
\* Claims about parseSessionDirRows (checked under SpecParse)
\* ------------------------------------------------------------------------

ParsedRows == pRows[2]

\* index of the last line of the log that is an assistant message with id m
LastOccurrence(m) ==
  CHOOSE k \in 1..Len(pLines) :
    /\ IsAssistantMessage(pLines[k]) /\ pLines[k].messageId = m
    /\ \A j \in (k + 1)..Len(pLines) :
         ~(IsAssistantMessage(pLines[j]) /\ pLines[j].messageId = m)

AssistantIds ==
  { pLines[k].messageId : k \in { j \in 1..Len(pLines) : IsAssistantMessage(pLines[j]) } }

\* C9: parseSessionDirRows returns exactly one row per distinct messageId among
\* the events satisfying isAssistantMessage, and the tokens, model, timestamp
\* and isEstimated flag of that row are those of the last event in file order
\* carrying that messageId.
C9_DedupLastWins ==
  pRows[1] = "rows" =>
    /\ { ParsedRows[i].messageId : i \in 1..Len(ParsedRows) } = AssistantIds
    /\ \A i, j \in 1..Len(ParsedRows) :
         ParsedRows[i].messageId = ParsedRows[j].messageId => i = j
    /\ \A i \in 1..Len(ParsedRows) :
         LET e == pLines[LastOccurrence(ParsedRows[i].messageId)]
             r == ParsedRows[i]
             t == RowTokens(e)
         IN  /\ r.input = t.input /\ r.output = t.output
             /\ r.cacheRead = t.cacheRead /\ r.cacheWrite = t.cacheWrite
             /\ r.isEstimated = t.isEstimated
             /\ r.timestamp = (IF e.timestamp \in {NoTs, BadTs} THEN pMtime ELSE e.timestamp)
             /\ r.modelId = RowModel(e, pMtime, ParseDefaultModel,
                                     ModelTimeline(ReadJsonlFile(pLines)))

\* a log in which one messageId occurs three times with different content,
\* parsed into a single row
C9_Witness ==
  /\ pRows[1] = "rows"
  /\ Len(pLines) = 3
  /\ \A k \in 1..3 : IsAssistantMessage(pLines[k]) /\ pLines[k].messageId = "m1"
  /\ RowTokens(pLines[1]).output /= RowTokens(pLines[3]).output
  /\ pLines[2].timestamp /= pLines[3].timestamp
  /\ Len(ParsedRows) = 1

\* the timestamp a model-change event counts with
ChangeTime(e) == IF e.timestamp \in {NoTs, BadTs} THEN 0 ELSE e.timestamp

\* the timestamp an assistant message counts with
MessageTime(e) == IF e.timestamp \in {NoTs, BadTs} THEN pMtime ELSE e.timestamp

\* the positions of the model-change events at or before time t
Qualifying(t) ==
  { k \in 1..Len(pLines) : IsModelChange(pLines[k]) /\ ChangeTime(pLines[k]) <= t }

\* among the qualifying model changes those with the greatest timestamp
Latest(t) ==
  { k \in Qualifying(t) : \A j \in Qualifying(t) : ChangeTime(pLines[j]) <= ChangeTime(pLines[k]) }

\* C10: the modelId of a row is the message's own data.model when present;
\* otherwise the newModel of the model-change event with the greatest
\* timestamp <= the message's timestamp (the last such event in file order
\* when several share that timestamp; a missing or malformed model-change
\* timestamp counts as 0, a missing or malformed message timestamp as
\* mtimeMs); the default model when no model change qualifies; whatever the
\* position of the model-change events in the file.
C10_ModelResolution ==
  pRows[1] = "rows" =>
    \A i \in 1..Len(ParsedRows) :
      LET e == pLines[LastOccurrence(ParsedRows[i].messageId)]
          t == MessageTime(e)
      IN  ParsedRows[i].modelId =
            IF e.model /= NoStr THEN e.model
            ELSE IF Latest(t) = {} THEN ParseDefaultModel
            ELSE pLines[CHOOSE k \in Latest(t) : \A j \in Latest(t) : j <= k].newModel

\* a message without a model of its own, behind two model changes that stand
\* in the file in descending time order, resolved to the later change
C10_Witness ==
  /\ pRows[1] = "rows"
  /\ Len(pLines) = 3
  /\ IsModelChange(pLines[1]) /\ pLines[1].timestamp = 2 /\ pLines[1].newModel = "X"
  /\ IsModelChange(pLines[2]) /\ pLines[2].timestamp = 1 /\ pLines[2].newModel = "Y"
  /\ IsAssistantMessage(pLines[3]) /\ pLines[3].model = NoStr /\ pLines[3].timestamp = 3
  /\ Len(ParsedRows) = 1 /\ ParsedRows[1].modelId = "X"

\* the least n with d * n >= x: Math.ceil(x / d)
CeilDiv(x, d) == CHOOSE n \in 0..x : d * n >= x /\ (n = 0 \/ d * (n - 1) < x)

\* usage.prompt_tokens is a number greater than 0
HasVendorUsage(e) == e.usage.present /\ e.usage.prompt_tokens /= NoNum /\ e.usage.prompt_tokens > 0

\* C11: for every assistant message parseSessionDirRows computes the tokens
\* as follows: when usage.prompt_tokens is a number greater than 0, input is
\* prompt_tokens, output is completion_tokens or 0 and isEstimated is false,
\* whatever the content length; otherwise output is ceil(len(content) / 4),
\* input is ceil(output / 2) and isEstimated is true (empty content gives 0
\* and 0); cacheRead and cacheWrite are attached only when the vendor value
\* is present and strictly positive, and then carry that value.
C11_TokenFigures ==
  pRows[1] = "rows" =>
    \A i \in 1..Len(ParsedRows) :
      LET e == pLines[LastOccurrence(ParsedRows[i].messageId)]
          r == ParsedRows[i]
      IN  /\ HasVendorUsage(e) =>
                /\ r.input = e.usage.prompt_tokens
                /\ r.output = (IF e.usage.completion_tokens = NoNum THEN 0
                               ELSE e.usage.completion_tokens)
                /\ r.isEstimated = FALSE
          /\ ~HasVendorUsage(e) =>
                /\ r.output = CeilDiv(e.content, 4)
                /\ r.input = CeilDiv(r.output, 2)
                /\ r.isEstimated = TRUE
                /\ e.content = 0 => (r.output = 0 /\ r.input = 0)
          /\ r.cacheRead /= NoNum =>
                /\ e.usage.present /\ e.usage.cache_read_input_tokens > 0
                /\ r.cacheRead = e.usage.cache_read_input_tokens
          /\ r.cacheWrite /= NoNum =>
                /\ e.usage.present /\ e.usage.cache_creation_input_tokens > 0
                /\ r.cacheWrite = e.usage.cache_creation_input_tokens

\* a log parsed into a row with vendor figures (completion_tokens absent, a
\* cache-write count attached, no cache-read count) and an estimated row
\* whose output is odd
C11_Witness ==
  /\ pRows[1] = "rows"
  /\ Len(ParsedRows) = 2
  /\ ParsedRows[1].isEstimated /\ ParsedRows[1].output = 1 /\ ParsedRows[1].input = 1
  /\ ~ParsedRows[2].isEstimated /\ ParsedRows[2].input = 4 /\ ParsedRows[2].output = 0
  /\ ParsedRows[2].cacheRead = NoNum /\ ParsedRows[2].cacheWrite = 5

\* C17: parseSessionDirRows never raises.  When the event log is missing or
\* unreadable, empty, or without a line that parses, it returns the empty
\* list; lines of malformed JSON are skipped, and every well-formed assistant
\* message on the other lines has its row in the result.
C17_NeverRaises ==
  /\ pRows[1] \in {"none", "rows"}
  /\ pRows[1] = "rows" =>
       /\ (~pReadable \/ \A k \in 1..Len(pLines) : pLines[k] = MalformedLine)
            => ParsedRows = <<>>
       /\ \A k \in 1..Len(pLines) :
            IsAssistantMessage(pLines[k]) =>
              \E i \in 1..Len(ParsedRows) : ParsedRows[i].messageId = pLines[k].messageId

\* a log whose second line is malformed JSON, parsed into the rows of the
\* assistant messages on its first and third line
C17_Witness ==
  /\ pRows[1] = "rows"
  /\ Len(pLines) = 3
  /\ IsAssistantMessage(pLines[1]) /\ pLines[2] = MalformedLine /\ IsAssistantMessage(pLines[3])
  /\ Len(ParsedRows) = 2
  /\ ParsedRows[1].messageId = pLines[1].messageId
  /\ ParsedRows[2].messageId = pLines[3].messageId

\* ------------------------------------------------------------------------
\* Claims about the tailing watcher (checked under SpecTail)
\* ------------------------------------------------------------------------

\* C2: tail reads of one event log are serialized.  While the watch is never
\* stopped, the byte ranges read from one log starting at a recorded offset
\* never overlap and follow each other in file order, and the callbacks
\* receive the assistant messages of these ranges in file order, each exactly
\* once.
C2_TailReadsSerialized ==
  stops = 0 =>
    /\ \A i, j \in DOMAIN reads :
         (i < j /\ reads[i].dir = reads[j].dir /\ reads[i].from > 0 /\ reads[j].from > 0)
           => reads[i].to <= reads[j].from
    /\ \A i, j \in DOMAIN delivered :
         (i < j /\ delivered[i].dir = delivered[j].dir
                /\ delivered[i].from > 0 /\ delivered[j].from > 0)
           => delivered[i].line < delivered[j].line

\* C14 as stated: a delta is delivered only to the callback that is
\* registered at the moment of delivery: once startActivityWatch has replaced
\* a callback, or stopActivityWatch has returned, the former callback is
\* never invoked again, not even by a processEventsDelta invocation in flight.
C14_OnlyRegisteredCallback ==
  [][\A i \in (Len(delivered) + 1)..Len(delivered') :
       delivered'[i].callback = activityWatcher.callback]_vars

\* C15 as stated: the deltas of one event log are delivered in file order.
\* While the watch is never stopped, of two deltas read from recorded
\* offsets, the one delivered later never belongs to a line at a lower byte
\* offset, also when two overlapping invocations read them.
C15_DeliveredInFileOrder ==
  stops = 0 =>
    \A i, j \in DOMAIN delivered :
      (i < j /\ delivered[i].dir = delivered[j].dir
             /\ delivered[i].from > 0 /\ delivered[j].from > 0)
        => delivered[i].line <= delivered[j].line

\* C16 as stated: for every line satisfying isAssistantMessage, the tokens
\* object passed to the callback (input, output, cacheRead, cacheWrite, absent
\* fields absent) equals the tokens of the row parseSessionDirRows produces
\* for the same event.
C16_TailTokensAsParsed ==
  \A i \in DOMAIN delivered :
    LET t == RowTokens(FileLines(delivered[i].dir)[delivered[i].line])
    IN  delivered[i].tokens = [input |-> t.input, output |-> t.output,
                               cacheRead |-> t.cacheRead, cacheWrite |-> t.cacheWrite]

\* ------------------------------------------------------------------------
\* Claims about parseSessionsFromDirs (checked under Spec)
\* ------------------------------------------------------------------------

\* call c has returned from the slow path
SlowDone(c) == call[c].pc = "done" /\ call[c].outcome = "slow"

\* C1 as stated: in every slow-path pass an aggregate-cache entry is used
\* exactly when its updatedAt equals the mtime the event log has on disk at
\* the time of the lookup.
C1_HitIffDiskMtime ==
  \A c \in CallIds : \A k \in DOMAIN call[c].lookups :
    LET look == call[c].lookups[k]
    IN  look.hit <=> (look.present /\ look.updatedAt = look.diskMtime)

\* C1: in every slow-path pass, for each session of the pass's list, the
\* cached rows are used without calling parseSessionDirRows if and only if an
\* entry exists for the session id whose updatedAt equals the mtime the pass
\* holds for the session (read by this pass's stat, or taken from the metadata
\* index when the stat is skipped); otherwise the pass calls
\* parseSessionDirRows and stores an entry with the fresh rows and updatedAt
\* equal to that mtime.
C1_HitIffHeldMtime ==
  /\ [](\A c \in CallIds : \A k \in DOMAIN call[c].lookups :
          LET look == call[c].lookups[k]
          IN  /\ look.hit <=> (look.present /\ look.updatedAt = look.heldMtime)
              /\ (k < Len(call[c].lookups) \/ call[c].pc /= "parse")
                   => (look.parsed <=> ~look.hit)
              /\ (k = Len(call[c].lookups) /\ call[c].pc = "parse") => ~look.hit)
  /\ [][\A c \in CallIds :
          (call[c].pc = "parse" /\ call'[c] /= call[c]) =>
            LET dir == call[c].sessionDirs[call[c].j]
                e   == sessionAggregateCache'[dir.sessionId]
            IN  /\ e.present \/ call'[c].pc = "done"
                /\ e.present =>
                     /\ e.updatedAt = dir.mtimeMs
                     /\ e.usageRows =
                          ParseSessionDirRows(EventsOnDisk(dir.dirPath),
                                              WorkspaceOf(dir.dirPath), dir.dirPath,
                                              dir.mtimeMs, call[c].defaultModel)]_vars

\* a pass found an entry whose updatedAt differs from the mtime it holds,
\* parsed the directory again and left the entry with that mtime
C1_Witness ==
  \E c \in CallIds : \E k \in DOMAIN call[c].lookups :
    LET look == call[c].lookups[k]
    IN  /\ SlowDone(c)
        /\ look.present /\ look.updatedAt /= look.heldMtime /\ look.parsed
        /\ sessionAggregateCache[look.dir].present
        /\ sessionAggregateCache[look.dir].updatedAt = look.heldMtime

\* C4 as stated: the aggregate cache holds at most
\* SESSION_AGGREGATE_CACHE_MAX entries in every state observable between
\* asynchronous steps, and an evicted entry's lastAccessed is at most that of
\* every entry kept.
C4_NeverAboveMax ==
  /\ Cardinality(CacheKeys(sessionAggregateCache)) <= SESSION_AGGREGATE_CACHE_MAX
  /\ \A c \in CallIds : \A x \in call[c].evicted, y \in call[c].kept : x <= y

\* C4: the aggregate cache holds at most SESSION_AGGREGATE_CACHE_MAX entries
\* when a slow-path pass returns and whenever no pass is suspended (inside a
\* pass it grows until the eviction at the end of the pass), and an evicted
\* entry's lastAccessed is at most that of every entry kept.
C4_BoundedAtReturn ==
  /\ \A c \in CallIds :
       SlowDone(c) =>
         /\ call[c].cacheSize <= SESSION_AGGREGATE_CACHE_MAX
         /\ \A x \in call[c].evicted, y \in call[c].kept : x <= y
  /\ (\A c \in CallIds : call[c].pc \in {"idle", "done"})
       => Cardinality(CacheKeys(sessionAggregateCache)) <= SESSION_AGGREGATE_CACHE_MAX

\* a pass ended by evicting an entry accessed earlier than the entry it kept
C4_Witness ==
  \E c \in CallIds :
    /\ SlowDone(c)
    /\ call[c].cacheSize = SESSION_AGGREGATE_CACHE_MAX
    /\ \E x \in call[c].evicted, y \in call[c].kept : x < y

\* the session id carried by the rows parsed from directory d
RowSessionId(d) == IF WorkspaceOf(d).present THEN WorkspaceOf(d).id ELSE d

\* C7 as stated: a call with sessionId = s returns exactly the matching rows:
\* every returned row carries s, and every session whose rows carry s
\* contributes its rows (here: the row of its first line, on disk throughout).
C7_SessionIdFilterExact ==
  \A c \in CallIds :
    (SlowDone(c) /\ call[c].sessionId /= NoStr) =>
      /\ \A i \in DOMAIN call[c].sessions : call[c].sessions[i].sessionId = call[c].sessionId
      /\ \A d \in Dirs :
           (RowSessionId(d) = call[c].sessionId /\ IsAssistantMessage(FileLines(d)[1]))
             => \E i \in DOMAIN call[c].sessions :
                  call[c].sessions[i].messageId = FileLines(d)[1].messageId

\* the directory whose event log carries messageId m
DirOfMessage(m) ==
  CHOOSE d \in Dirs : \E k \in DOMAIN FileLines(d) :
    IsAssistantMessage(FileLines(d)[k]) /\ FileLines(d)[k].messageId = m

\* the first line of the event log of d that carries messageId m
FirstLine(d, m) ==
  CHOOSE k \in DOMAIN FileLines(d) :
    /\ IsAssistantMessage(FileLines(d)[k]) /\ FileLines(d)[k].messageId = m
    /\ \A j \in 1..(k - 1) :
         ~(IsAssistantMessage(FileLines(d)[j]) /\ FileLines(d)[j].messageId = m)

\* the position of directory d in the session list of the pass L
PosOf(L, d) == CHOOSE p \in DOMAIN L.sessionDirs : L.sessionDirs[p].dirPath = d

\* C8: the list returned by a slow-path call is grouped by session, the
\* sessions stand in non-increasing order of the mtime the pass holds for
\* them, and within one session the rows stand in the order in which their
\* messageId first occurs in the event log.
C8_ResultOrder ==
  \A c \in CallIds :
    SlowDone(c) =>
      LET L == call[c]
      IN  /\ \A p, q \in DOMAIN L.sessionDirs :
               p < q => L.sessionDirs[p].mtimeMs >= L.sessionDirs[q].mtimeMs
          /\ \A i \in DOMAIN L.sessions :
               /\ \E p \in DOMAIN L.sessionDirs :
                    L.sessionDirs[p].dirPath = DirOfMessage(L.sessions[i].messageId)
               /\ L.sessions[i].sessionUpdatedAt =
                    L.sessionDirs[PosOf(L, DirOfMessage(L.sessions[i].messageId))].mtimeMs
          /\ \A i, j \in DOMAIN L.sessions :
               i < j =>
                 LET di == DirOfMessage(L.sessions[i].messageId)
                     dj == DirOfMessage(L.sessions[j].messageId)
                 IN  /\ PosOf(L, di) <= PosOf(L, dj)
                     /\ di = dj => FirstLine(di, L.sessions[i].messageId)
                                     < FirstLine(dj, L.sessions[j].messageId)

\* a pass returned the rows of the directory discovered second ahead of two
\* rows of the directory discovered first, whose log is older
C8_Witness ==
  \E c \in CallIds :
    /\ SlowDone(c)
    /\ Len(call[c].sessionDirs) = 2
    /\ call[c].sessionDirs[1].dirPath = "d2"
    /\ call[c].sessionDirs[1].mtimeMs > call[c].sessionDirs[2].mtimeMs
    /\ Len(call[c].sessions) = 3

\* ------------------------------------------------------------------------
\* Claims about the fast path (checked under SpecLifecycle)
\* ------------------------------------------------------------------------

\* the conditions of C5 for the call with locals L, at the time of the check
ResultCacheAnswers(L) ==
  /\ L.sessionId = NoStr
  /\ (IF L.limit = NoNum THEN 100 ELSE L.limit) = sessionCache.lastLimit
  /\ L.since = sessionCache.lastSince
  /\ Len(sessionCache.lastResult) > 0
  /\ clock - sessionCache.lastCheck < CACHE_TTL_MS

\* C5 as stated: the call returns sessionCache.lastResult without running
\* reconciliation if and only if no sessionId was requested, the limit
\* (default 100) equals lastLimit, since equals lastSince, lastResult is
\* non-empty and now - lastCheck is below CACHE_TTL_MS; in every other case
\* the slow path runs.
C5_FastPathIffConditions ==
  [][\A c \in CallIds :
       (call[c].pc = "access" /\ call'[c].pc /= "access") =>
         /\ (call'[c].outcome = "fast") <=> ResultCacheAnswers(call[c])
         /\ ~ResultCacheAnswers(call[c]) => call'[c].pc = "discover"]_vars

\* C5: when the session-state root is accessible, the call returns
\* sessionCache.lastResult without running reconciliation if and only if the
\* five conditions hold, and runs the slow path otherwise; when the root is
\* not accessible it returns the empty list, whatever the result cache holds.
C5_FastPathIffConditionsAndRoot ==
  [][\A c \in CallIds :
       (call[c].pc = "access" /\ call'[c].pc /= "access") =>
         /\ (call'[c].outcome = "fast") <=> (rootExists /\ ResultCacheAnswers(call[c]))
         /\ call'[c].outcome = "fast" =>
              call'[c].pc = "done" /\ call'[c].sessions = sessionCache.lastResult
         /\ (rootExists /\ ~ResultCacheAnswers(call[c])) => call'[c].pc = "discover"
         /\ ~rootExists =>
              /\ call'[c].pc = "done" /\ call'[c].outcome = "empty"
              /\ call'[c].sessions = <<>>]_vars

\* a call with a limit of its own was answered from the result cache
C5_Witness ==
  \E c \in CallIds :
    /\ call[c].pc = "done" /\ call[c].outcome = "fast"
    /\ call[c].limit /= NoNum
    /\ Len(call[c].sessions) > 0

\* C6 as stated: a call answered from the result cache performs no filesystem
\* operation and leaves the dirty-path set, the force-full-reconciliation
\* flag, the metadata index, the aggregate cache and the watcher state
\* unchanged.
C6_FastPathTouchesNothing ==
  [][\A c \in CallIds :
       (call[c].pc = "access" /\ call'[c].outcome = "fast") =>
         /\ call'[c].fsOps = 0
         /\ UNCHANGED <<sessionWatcher, swTasks, forceFullReconciliation,
                        sessionMetadataIndex, sessionAggregateCache>>]_vars

\* ------------------------------------------------------------------------
\* Claims about the watcher lifecycle (checked under SpecLifecycle)
\* ------------------------------------------------------------------------

\* C12 as stated: after stopSessionWatcher has returned and until the next
\* start (started is false), the dirty-tracking watcher holds no
\* per-directory watch, no root watch and no reconciliation timer, and its
\* dirty set is empty, in every interleaving.
C12_StoppedHoldsNothing ==
  ~sessionWatcher.started =>
    /\ \A d \in Dirs : sessionWatcher.sessionDirWatchers[d] = "none"
    /\ sessionWatcher.rootWatcher = "none"
    /\ ~sessionWatcher.reconciliationTimer
    /\ sessionWatcher.dirtyPaths = {}

\* C20 as stated: when the force-full-reconciliation flag is set at the start
\* of a slow-path pass, the pass clears the flag and stats the event log of
\* every discovered session directory, dirty or not, indexed or not, with or
\* without a sessionId filter.
C20_FullReconciliationStatsAll ==
  [][\A c \in CallIds :
       /\ (call[c].pc = "access" /\ call'[c].pc = "discover" /\ forceFullReconciliation)
            => (~forceFullReconciliation' /\ call'[c].needsFullStat)
       /\ (call[c].pc \in {"discover", "stat", "parse"} /\ call[c].needsFullStat
              /\ call'[c].pc = "done")
            => \A d \in DiscoveredSet : d \in call'[c].statted]_vars

\* ------------------------------------------------------------------------
\* Claims about starting the watchers (checked under SpecWatch)
\* ------------------------------------------------------------------------

\* C13: start is idempotent.  However many times startSessionWatcher is
\* called (by the host and by every parseSessionsFromDirs), the
\* dirty-tracking watcher has at most one root watch open, exactly one
\* reconciliation timer while it is started (none while it is stopped) and at
\* most one watch open per session directory; the tailing watcher likewise
\* has at most one root watch and one watch per directory open, and a
\* startActivityWatch call on a started watcher opens no watch and schedules
\* no discovery.
C13_StartIdempotent ==
  /\ [](/\ sessionWatcher.opened.root <= 1
        /\ sessionWatcher.opened.timer = (IF sessionWatcher.started THEN 1 ELSE 0)
        /\ \A d \in Dirs : sessionWatcher.opened.dirs[d] <= 1
        /\ activityWatcher.opened.root <= 1
        /\ \A d \in Dirs : activityWatcher.opened.dirs[d] <= 1)
  /\ [][(activityWatcher.started /\ activityWatcher'.started
           /\ activityWatcher'.callback /= activityWatcher.callback)
          => /\ activityWatcher'.opened = activityWatcher.opened
             /\ activityWatcher'.sessionDirWatchers = activityWatcher.sessionDirWatchers
             /\ activityWatcher'.rootWatcher = activityWatcher.rootWatcher
             /\ awTasks' = awTasks]_vars
  /\ [][(sessionWatcher.started /\ sessionWatcher'.started)
          => /\ sessionWatcher'.opened.root = sessionWatcher.opened.root
             /\ sessionWatcher'.opened.timer = sessionWatcher.opened.timer
             /\ swTasks' <= swTasks]_vars

\* without any stop, two parseSessionsFromDirs calls have run
\* startSessionWatcher and a second callback has replaced the first: each
\* watcher has one root watch and one watch per directory open, and one timer
\* runs
C13_Witness ==
  /\ stops = 0 /\ begun = 2
  /\ \E c \in CallIds : call[c].pc = "done" /\ call[c].outcome = "fast"
  /\ sessionWatcher.opened = [root |-> 1, timer |-> 1, dirs |-> [d \in Dirs |-> 1]]
  /\ activityWatcher.callback = "cb2" /\ awTasks = 0
  /\ activityWatcher.opened = [root |-> 1, dirs |-> [d \in Dirs |-> 1]]

\* the watches a watcher object holds or has open are among those of before
NoNewWatch(w, v) ==
  /\ v.opened.root <= w.opened.root
  /\ v.rootWatcher = "live" => w.rootWatcher = "live"
  /\ \A d \in Dirs : /\ v.opened.dirs[d] <= w.opened.dirs[d]
                      /\ v.sessionDirWatchers[d] = "live" => w.sessionDirWatchers[d] = "live"

\* C18: while the session-state root is missing, a parseSessionsFromDirs call
\* that finds it missing returns the empty list, does not start the
\* dirty-tracking watcher and leaves the result cache, the metadata index,
\* the aggregate cache, the dirty set and the force-full flag unchanged;
\* startSessionWatcher and startActivityWatch complete (the watcher is
\* started afterwards) and neither they nor the discovery they schedule
\* register a watch.
C18_MissingRoot ==
  [][~rootExists =>
       /\ \A c \in CallIds :
            (call[c].pc = "access" /\ call'[c] /= call[c]) =>
              /\ call'[c].pc = "done" /\ call'[c].outcome = "empty"
              /\ call'[c].sessions = <<>>
              /\ UNCHANGED <<sessionWatcher, swTasks, forceFullReconciliation, sessionCache,
                             sessionMetadataIndex, sessionAggregateCache>>
       /\ NoNewWatch(sessionWatcher, sessionWatcher')
       /\ NoNewWatch(activityWatcher, activityWatcher')
       /\ swTasks' > swTasks => sessionWatcher'.started
       /\ awTasks' > awTasks => activityWatcher'.started]_vars

\* with the root missing, both watchers were started and their discoveries
\* have run without a watch being opened, and a call has returned the empty
\* list while the result cache holds the rows of an earlier pass
C18_Witness ==
  /\ ~rootExists
  /\ \E c \in CallIds : call[c].pc = "done" /\ call[c].outcome = "empty"
  /\ Len(sessionCache.lastResult) > 0
  /\ sessionWatcher.started /\ swTasks = 0
  /\ sessionWatcher.opened = [root |-> 0, timer |-> 1, dirs |-> NoneOpened]
  /\ activityWatcher.started /\ awTasks = 0
  /\ activityWatcher.opened = [root |-> 0, dirs |-> NoneOpened]

\* ------------------------------------------------------------------------
\* Claims about the aggregate cache and the default model (checked under
\* SpecModel)
\* ------------------------------------------------------------------------

\* the rows parseSessionDirRows would produce for directory d now, called as
\* a pass starting now calls it for a log of mtime mtimeMs
FreshRows(d, mtimeMs) ==
  ParseSessionDirRows(EventsOnDisk(d), WorkspaceOf(d), d, mtimeMs, GetDefaultModel(clock).model)

\* C19 as stated: for a session whose event log has not changed since its
\* aggregate-cache entry was stored (the entry's updatedAt is the mtime of the
\* log), the rows parseSessionDirRows would produce now are the rows stored
\* in the entry, so a cache hit and a fresh parse give the caller the same.
C19_CachedRowsAsFresh ==
  \A d \in Dirs :
    (sessionAggregateCache[d].present /\ sessionAggregateCache[d].updatedAt = fs[d].mtime)
      => sessionAggregateCache[d].usageRows = FreshRows(d, fs[d].mtime)

\* ------------------------------------------------------------------------
\* Claims about eventual consistency (checked under SpecLive)
\* ------------------------------------------------------------------------

\* an unfiltered call has returned that stat'd the event log of d and
\* returned rows of d parsed at the mtime the log has now
ServedFresh(d) ==
  \E c \in CallIds :
    /\ call[c].pc = "done" /\ call[c].sessionId = NoStr
    /\ d \in call[c].statted
    /\ \E i \in DOMAIN call[c].sessions :
         /\ DirOfMessage(call[c].sessions[i].messageId) = d
         /\ call[c].sessions[i].sessionUpdatedAt = fs[d].mtime

\* C3 as stated: when the event log of a session is modified and no
\* notification for it is ever delivered, then, the timer firing again and
\* again and filtered and unfiltered calls arriving again and again after the
\* TTL, an unfiltered call eventually stats the log again and returns rows
\* parsed from the modified content.
C3_EventualConsistency ==
  \A d \in Dirs : (fs[d].mtime > 1) ~> ServedFresh(d)

\* ------------------------------------------------------------------------
\* Claims about the result cache
\* ------------------------------------------------------------------------

\* call c is suspended at an await of the slow path
InSlowPath(c) == call[c].pc \in {"discover", "stat", "parse"}

\* C26: a slow-path query without sessionId replaces lastResult, lastLimit,
\* lastSince and lastCheck with the list, the limit, the since of that query
\* and the time of its return, also when the list is empty; a slow-path query
\* with a sessionId leaves the four fields as they are; no step of a pass
\* before its return writes the result cache.
C26_ResultCacheReplaced ==
  [][\A c \in CallIds :
       /\ (InSlowPath(c) /\ call'[c].pc = "done")
            => IF call[c].sessionId = NoStr
               THEN sessionCache' = [lastCheck |-> clock, lastResult |-> call'[c].sessions,
                                     lastLimit |-> LimitOf(call[c].limit),
                                     lastSince |-> call[c].since]
               ELSE sessionCache' = sessionCache
       /\ (InSlowPath(c) /\ call'[c] /= call[c] /\ call'[c].pc /= "done")
            => sessionCache' = sessionCache]_vars

\* an unfiltered query with limit 5 has returned an empty list through the
\* slow path, and the result cache holds the empty list and that limit
C26_Witness ==
  \E c \in CallIds :
    /\ SlowDone(c) /\ call[c].sessionId = NoStr /\ call[c].limit = 5
    /\ call[c].sessions = <<>>
    /\ sessionCache.lastResult = <<>> /\ sessionCache.lastLimit = 5

\* ------------------------------------------------------------------------
\* Claims about priming (checked under SpecTail)
\* ------------------------------------------------------------------------

\* C30 as stated: an assistant message that is completely in an event log
\* before startActivityWatch is called is never delivered to the callback
\* (the first line of every log is there from the start, and no log is
\* truncated or deleted), however primeSessionOffset interleaves with the
\* change notifications of the log.
C30_PrimedMessagesNotDelivered ==
  stops = 0 => \A i \in DOMAIN delivered : delivered[i].line > 1

\* ------------------------------------------------------------------------
\* Claims about the offsets of processEventsDelta (checked under SpecOffsets
\* and SpecChunks)
\* ------------------------------------------------------------------------

\* fileOffsets.get(filePath) ?? 0
KnownOffset(d) ==
  IF activityWatcher.fileOffsets[d] = NoNum THEN 0 ELSE activityWatcher.fileOffsets[d]

\* C28 as stated: processEventsDelta resuming from a successful stat with
\* the size below the recorded offset goes on to read the bytes from 0 to the
\* size and the recorded offset becomes the size (at once when there is
\* nothing to read); with the size equal to the offset it ends, reads and
\* delivers nothing and leaves the offset; with the size above the offset it
\* goes on to read the bytes from the offset to the size; a read that
\* succeeds reads exactly that range and records the size.
C28_ReadRange ==
  [][\A t \in TailIds :
       /\ (tails[t].pc = "stat" /\ tails'[t] /= tails[t]
              /\ rootExists /\ fs[tails[t].dir].exists)
            => LET d     == tails[t].dir
                   known == KnownOffset(d)
                   size  == fs[d].size
               IN  /\ size < known =>
                        IF size = 0
                        THEN activityWatcher'.fileOffsets[d] = 0
                        ELSE /\ tails'[t].pc = "read"
                             /\ tails'[t].startOffset = 0 /\ tails'[t].size = size
                   /\ size = known =>
                        /\ tails'[t] = NoTail
                        /\ UNCHANGED <<reads, delivered, activityWatcher>>
                   /\ size > known =>
                        /\ tails'[t].pc = "read"
                        /\ tails'[t].startOffset = known /\ tails'[t].size = size
       /\ (tails[t].pc = "read" /\ tails'[t].pc = "ws")
            => /\ reads' = Append(reads, [dir |-> tails[t].dir, from |-> tails[t].startOffset,
                                          to |-> tails[t].size])
               /\ activityWatcher'.fileOffsets[tails[t].dir] = tails[t].size]_vars

Without(s, i) == SubSeq(s, 1, i - 1) \o SubSeq(s, i + 1, Len(s))

\* C24: when a pass resumes from the stat of a discovered event log and the
\* file is gone, the index entry of the path is removed, the pass does not
\* raise, its session list gets no entry for the directory and keeps the
\* entries it had, a list returned in that step has no row of that session,
\* and the index, the session list and the rows after the step are those the
\* pass would have reached from the same state had the directory not been
\* among the discovered ones.
C24_StatFailureSkips ==
  [][\A c \in CallIds :
       (call[c].pc = "stat" /\ call'[c] /= call[c]
          /\ ~(rootExists /\ fs[call[c].discovered[call[c].i]].exists))
         => LET d  == call[c].discovered[call[c].i]
                M0 == [Machine(c) EXCEPT !.c.discovered = Without(@, call[c].i),
                                         !.c.meta = NoMeta, !.idx[d] = NoMeta]
                R  == RunDirLoop(M0)
            IN  /\ sessionMetadataIndex'[d] = NoMeta
                /\ call'[c].pc \in {"stat", "parse", "done"}
                /\ call'[c].pc = "done" => call'[c].outcome = "slow"
                /\ \A p \in DOMAIN call'[c].sessionDirs : call'[c].sessionDirs[p].dirPath /= d
                /\ \A p \in DOMAIN call[c].sessionDirs :
                     \E q \in DOMAIN call'[c].sessionDirs :
                       call'[c].sessionDirs[q] = call[c].sessionDirs[p]
                /\ call'[c].pc = "done" =>
                     \A r \in DOMAIN call'[c].sessions :
                       call'[c].sessions[r].sessionId /= RowSessionId(d)
                /\ sessionMetadataIndex' = R.idx
                /\ call'[c].sessionDirs = R.c.sessionDirs
                /\ call'[c].sessions = R.c.sessions]_vars

\* an unfiltered pass has stat'd d1 and d2, d2 had vanished and had an index
\* entry from an earlier pass: the pass returned the row of d1 and no entry
\* for d2 is left
C24_Witness ==
  \E c \in CallIds :
    /\ SlowDone(c) /\ call[c].sessionId = NoStr /\ call[c].since = NoNum
    /\ begun = 2
    /\ call[c].statted = {"d1", "d2"}
    /\ ~fs["d2"].exists
    /\ \A p \in DOMAIN call[c].sessionDirs : call[c].sessionDirs[p].dirPath /= "d2"
    /\ ~sessionMetadataIndex["d2"].present
    /\ Len(call[c].sessions) > 0

\* ------------------------------------------------------------------------
\* Claims about the dirty set (checked under SpecDirty)
\* ------------------------------------------------------------------------

\* C21 as stated: when a slow-path pass returns, it has stat'd every path of
\* its dirty snapshot whose directory is discovered, whatever the sessionId
\* and since of the query.
C21_DirtyPathsStatted ==
  [][\A c \in CallIds :
       (InSlowPath(c) /\ call'[c].pc = "done")
         => \A d \in call[c].dirtyPaths \cap DiscoveredSet : d \in call'[c].statted]_vars

Examined(c) ==
  LET disc  == IF call[c].pc = "discover" THEN GetSessionDirs ELSE call[c].discovered
      first == IF call[c].pc = "discover" THEN 1
               ELSE IF call[c].pc = "stat" THEN call[c].i + 1
               ELSE Len(disc) + 1
      last  == IF call'[c].pc = "stat" THEN call'[c].i ELSE Len(disc)
  IN  { disc[k] : k \in first..last }

\* C23: a directory that the directory loop reaches while it is not in the
\* dirty snapshot, the pass has not consumed the force-full flag and the
\* index has an entry for it, is not stat'd (the pass neither suspends at its
\* stat nor counts it as stat'd); its index entry is the same after the step,
\* and an entry of the session list for it carries the indexed mtime and
\* session id.
C23_TrustedNotStatted ==
  [][\A c \in CallIds :
       (InSlowPath(c) /\ call'[c] /= call[c])
         => \A d \in Examined(c) :
              (d \notin call[c].dirtyPaths /\ ~call[c].needsFullStat
                 /\ sessionMetadataIndex[d].present)
                => /\ d \notin call'[c].statted
                   /\ call'[c].pc = "stat" => call'[c].discovered[call'[c].i] /= d
                   /\ sessionMetadataIndex'[d] = sessionMetadataIndex[d]
                   /\ \A p \in DOMAIN call'[c].sessionDirs :
                        call'[c].sessionDirs[p].dirPath = d
                          => /\ call'[c].sessionDirs[p].mtimeMs =
                                  sessionMetadataIndex[d].mtimeMs
                             /\ call'[c].sessionDirs[p].sessionId =
                                  sessionMetadataIndex[d].sessionId]_vars

\* the second pass of a run, unfiltered, found d1 dirty and stat'd it, did
\* not stat d2 and has both directories in its session list
C23_Witness ==
  \E c \in CallIds :
    /\ SlowDone(c) /\ begun = 2 /\ call[c].sessionId = NoStr
    /\ call[c].statted = {"d1"}
    /\ Len(call[c].sessionDirs) = 2

\* ------------------------------------------------------------------------
\* Claims about overlapping passes (checked under SpecOverlap)
\* ------------------------------------------------------------------------

\* the paths the pass of call c has discovered, or discovers in this step
\* (seenDirPaths when it returns)
SeenBy(c) ==
  IF call[c].pc = "discover" THEN DiscoveredSet
  ELSE { call[c].discovered[k] : k \in DOMAIN call[c].discovered }

\* no other invocation has been made beside the awaited calls of slot c
Alone(c) == \A o \in CallIds \ {c} : call[o].pc = "idle"

\* C25 as stated: when a slow-path pass returns, every key of
\* sessionMetadataIndex is a path this pass discovered, also when another
\* pass overlaps with it.
C25_IndexWithinDiscovered ==
  [][\A c \in CallIds :
       (InSlowPath(c) /\ call'[c].pc = "done")
         => CacheKeys(sessionMetadataIndex') \subseteq SeenBy(c)]_vars

\* C25 amended: when a slow-path pass returns and no pass has overlapped
\* with it or with a pass before it, every key of sessionMetadataIndex is a
\* path this pass discovered, with or without a sessionId filter.
C25_IndexWithinDiscoveredAlone ==
  [][\A c \in CallIds :
       (InSlowPath(c) /\ call'[c].pc = "done" /\ Alone(c))
         => CacheKeys(sessionMetadataIndex') \subseteq SeenBy(c)]_vars

\* the second of two awaited passes has returned without a stat of d2, which
\* the first pass had parsed and which has been removed since: the index has
\* no entry for d2 any more
C25_Witness ==
  \E c \in CallIds :
    /\ SlowDone(c) /\ Alone(c) /\ begun = 2
    /\ sessionAggregateCache["d2"].present
    /\ "d2" \notin call[c].statted
    /\ ~fs["d2"].exists
    /\ sessionMetadataIndex["d1"].present
    /\ ~sessionMetadataIndex["d2"].present

\* the value of the result cache that the slow-path return of call c writes
WrittenBy(c) ==
  [lastResult |-> call[c].sessions, lastLimit |-> LimitOf(call[c].limit),
   lastSince |-> call[c].since]

\* the result cache without the time
WithoutTime(sc) ==
  [lastResult |-> sc.lastResult, lastLimit |-> sc.lastLimit, lastSince |-> sc.lastSince]

\* C27: with overlapping calls, the result cache changes only in the step in
\* which an unfiltered call returns through the slow path, and in that step
\* list, limit, since and time all become those of that call, so the call
\* that returns last leaves its values; when both of two overlapping
\* unfiltered slow-path calls have returned, list, limit and since of the
\* result cache are together those of one of the two.
C27_LastWriterWins ==
  /\ [][sessionCache' /= sessionCache
         => \E c \in CallIds :
              /\ InSlowPath(c) /\ call'[c].pc = "done" /\ call[c].sessionId = NoStr
              /\ sessionCache' = [lastCheck |-> clock, lastResult |-> call'[c].sessions,
                                  lastLimit |-> LimitOf(call[c].limit),
                                  lastSince |-> call[c].since]]_vars
  /\ []((begun = 2 /\ \A c \in CallIds : SlowDone(c) /\ call[c].sessionId = NoStr)
          => \E c \in CallIds : WithoutTime(sessionCache) = WrittenBy(c))

\* two unfiltered calls with different limits have overlapped (each missed
\* the aggregate cache for d1 and parsed it, at the same mtime) and both have
\* returned through the slow path; the result cache holds the list and the
\* limit 5 of call 1 and not the limit of call 2
C27_Witness ==
  /\ \A c \in CallIds : SlowDone(c) /\ call[c].sessionId = NoStr
  /\ call[1].limit = 5 /\ call[2].limit = NoNum
  /\ \A c \in CallIds :
       \E p \in DOMAIN call[c].lookups :
         /\ call[c].lookups[p].dir = "d1" /\ call[c].lookups[p].parsed
         /\ call[c].lookups[p].heldMtime = 1
  /\ WithoutTime(sessionCache) = WrittenBy(1)
  /\ WithoutTime(sessionCache) /= WrittenBy(2)

\* ------------------------------------------------------------------------
\* Claims about stopping and restarting the watchers (checked under SpecWatch)
\* ------------------------------------------------------------------------

\* C31: a stop leaves the result cache, the metadata index and the aggregate
\* cache as they are; after a stop, the step that starts the dirty-tracking
\* watcher sets the timer, opens the root watch (when the root exists) and
\* schedules the discovery, the step that starts the tailing watcher opens
\* its root watch and schedules its discovery, and each discovery leaves a
\* live watch on every discovered directory.
C31_StopKeepsCachesRestartWorks ==
  [][/\ stops' = stops + 1
          => UNCHANGED <<sessionCache, sessionMetadataIndex, sessionAggregateCache>>
     /\ (stops >= 1 /\ ~sessionWatcher.started /\ sessionWatcher'.started)
          => /\ sessionWatcher'.reconciliationTimer
             /\ sessionWatcher'.rootWatcher = IF rootExists THEN "live" ELSE "none"
             /\ swTasks' = swTasks + 1
     /\ (stops >= 1 /\ swTasks' = swTasks - 1)
          => \A d \in DiscoveredSet : sessionWatcher'.sessionDirWatchers[d] = "live"
     /\ (stops >= 1 /\ ~activityWatcher.started /\ activityWatcher'.started)
          => /\ activityWatcher'.rootWatcher = IF rootExists THEN "live" ELSE "none"
             /\ activityWatcher'.callback /= NoStr
             /\ awTasks' = awTasks + 1
     /\ (stops >= 1 /\ awTasks' = awTasks - 1)
          => \A d \in DiscoveredSet : activityWatcher'.sessionDirWatchers[d] = "live"]_vars

\* both watchers have been stopped and started again: root watches, timer
\* and the watches of both directories are live, and the index and the
\* aggregate cache hold what a pass stored
C31_Witness ==
  /\ stops = 1 /\ swTasks = 0 /\ awTasks = 0
  /\ sessionWatcher.started /\ sessionWatcher.reconciliationTimer
  /\ sessionWatcher.rootWatcher = "live"
  /\ activityWatcher.started /\ activityWatcher.rootWatcher = "live"
  /\ \A d \in Dirs : /\ sessionWatcher.sessionDirWatchers[d] = "live"
                      /\ activityWatcher.sessionDirWatchers[d] = "live"
  /\ sessionMetadataIndex["d1"].present
  /\ sessionAggregateCache["d1"].present

\* ------------------------------------------------------------------------
\* Claims about getDefaultModel (checked under SpecLogs)
\* ------------------------------------------------------------------------

\* C32: getDefaultModel, called by a pass resuming from getSessionDirs,
\* returns a model and never raises; while a cached model is younger than
\* MODEL_CACHE_TTL_MS it returns it without reading the log directory and
\* leaves the cache; otherwise it reads the directory: a model found is
\* returned and cached with the time of the call; when readdir raises, no
\* process log exists or the latest has no marker line, it returns the
\* cached model, or "unknown" when there is none, and leaves the cached
\* model and the cache time as they are.
C32_DefaultModelNeverFails ==
  [][\A c \in CallIds :
       (call[c].pc = "discover" /\ call'[c] /= call[c])
         => /\ call'[c].defaultModel /= NoStr
            /\ call'[c].pc \in {"stat", "parse", "done"}
            /\ IF cachedModel /= NoStr /\ clock - modelCacheTime < MODEL_CACHE_TTL_MS
               THEN /\ call'[c].defaultModel = cachedModel
                    /\ ~call'[c].scanned
                    /\ UNCHANGED <<cachedModel, modelCacheTime>>
               ELSE /\ call'[c].scanned
                    /\ IF logModel \in ScanFailures
                       THEN /\ call'[c].defaultModel =
                                 IF cachedModel /= NoStr THEN cachedModel ELSE "unknown"
                            /\ UNCHANGED <<cachedModel, modelCacheTime>>
                       ELSE /\ call'[c].defaultModel = logModel
                            /\ cachedModel' = logModel
                            /\ modelCacheTime' = clock]_vars

\* the second pass of a run was made after the cached model gpt-a had
\* expired and while the latest process log had no marker line: it read the
\* directory, used gpt-a, and the cache time is still that of the first pass
C32_Witness ==
  \E c \in CallIds :
    /\ call[c].pc = "done" /\ call[c].outcome = "slow" /\ begun = 2
    /\ call[c].scanned /\ call[c].defaultModel = "gpt-a"
    /\ logModel = "<no marker line>"
    /\ cachedModel = "gpt-a" /\ modelCacheTime = 0
    /\ call[c].now = MODEL_CACHE_TTL_MS

\* ------------------------------------------------------------------------
\* Claims about the two watchers together (checked under SpecWatch)
\* ------------------------------------------------------------------------

\* C33: startActivityWatch and stopActivityWatch leave the dirty-tracking
\* watcher as it is: its per-directory watches, its root watch, its
\* reconciliation timer, its dirty set and its started flag.
C33_ActivityWatchLeavesDirtyWatcher ==
  [][(\/ stops' = stops + 1
      \/ activityWatcher'.started /= activityWatcher.started
      \/ activityWatcher'.callback /= activityWatcher.callback)
       => /\ sessionWatcher'.sessionDirWatchers = sessionWatcher.sessionDirWatchers
          /\ sessionWatcher'.rootWatcher = sessionWatcher.rootWatcher
          /\ sessionWatcher'.reconciliationTimer = sessionWatcher.reconciliationTimer
          /\ sessionWatcher'.dirtyPaths = sessionWatcher.dirtyPaths
          /\ sessionWatcher'.started = sessionWatcher.started]_vars

\* ------------------------------------------------------------------------
\* Claims about the limit option (checked under SpecLimit)
\* ------------------------------------------------------------------------

\* lines 314-380: the pass M, suspended at fs.stat or parseSessionDirRows,
\* run to the end of its aggregate loop on the files as they are now
RECURSIVE RunToFinish(_)
RunToFinish(M) ==
  IF M.c.pc = "stat" THEN RunToFinish(AfterStat(M))
  ELSE IF M.c.pc = "parse" THEN RunToFinish(AfterParse(M))
  ELSE M

\* lines 284-380: the list the slow-path pass of call c comes to when it runs
\* on from where it is, had it been called with `limit`
ListWithLimit(c, limit) ==
  LET M == [Machine(c) EXCEPT !.c.limit = limit]
  IN  IF call[c].pc = "discover"
      THEN RunToFinish(RunDirLoop([M EXCEPT !.c.discovered = GetSessionDirs,
                                            !.c.defaultModel = GetDefaultModel(clock).model,
                                            !.c.i = 1])).c.sessions
      ELSE RunToFinish(M).c.sessions

\* the sessionId values of the rows of a list
SessionsOf(rows) == { rows[i].sessionId : i \in 1..Len(rows) }

\* C34: the limit never changes the rows of a slow-path query: a pass on the
\* slow path, run on from the same files and caches with any other limit,
\* comes to the same list, and the list it returns is that list; the limit
\* goes only into the result cache.
C34_LimitNeverChangesRows ==
  [][\A c \in CallIds :
       (InSlowPath(c) /\ call'[c] /= call[c])
         => /\ \A limit \in {NoNum, 1, 5} :
                 ListWithLimit(c, limit) = ListWithLimit(c, call[c].limit)
            /\ SlowDone(c)' => call'[c].sessions = ListWithLimit(c, call[c].limit)
            /\ (SlowDone(c)' /\ call[c].sessionId = NoStr)
                 => sessionCache'.lastLimit = LimitOf(call[c].limit)]_vars

\* an unfiltered call with limit 1 has returned, through the slow path, two
\* rows of two sessions
C34_Witness ==
  \E c \in CallIds :
    /\ SlowDone(c) /\ call[c].sessionId = NoStr /\ call[c].limit = 1
    /\ Len(call[c].sessions) > 1
    /\ Cardinality(SessionsOf(call[c].sessions)) > 1

\* ------------------------------------------------------------------------
\* Claims about the default model in cached rows (checked under SpecModel)
\* ------------------------------------------------------------------------

\* parseSessionDirRows on the log of d as it is now, at mtimeMs, with
\* defaultModel
RowsNow(d, mtimeMs, defaultModel) ==
  ParseSessionDirRows(EventsOnDisk(d), WorkspaceOf(d), d, mtimeMs, defaultModel)

\* C35: the rows of an aggregate-cache entry are written only by a pass that
\* parsed the session, with the default model that pass resolved; a later
\* pass that hits the entry returns those rows as they are, whatever default
\* model it resolved itself; for a log unchanged since the entry was stored,
\* the rows of the hit are the rows of a fresh parse exactly when their
\* modelId is the default model of the pass that hits.
C35_CachedRowsKeepTheirModel ==
  [][/\ \A d \in Dirs :
          (/\ sessionAggregateCache'[d].present
           /\ \/ ~sessionAggregateCache[d].present
              \/ sessionAggregateCache'[d].usageRows /= sessionAggregateCache[d].usageRows)
            => \E c \in CallIds :
                 /\ call[c].pc = "parse"
                 /\ call[c].sessionDirs[call[c].j].dirPath = d
                 /\ sessionAggregateCache'[d].usageRows =
                      RowsNow(d, call[c].sessionDirs[call[c].j].mtimeMs, call[c].defaultModel)
     /\ \A c \in CallIds :
          (InSlowPath(c) /\ call'[c] /= call[c])
            => \A i \in 1..Len(call'[c].lookups) :
                 (i > Len(call[c].lookups) /\ call'[c].lookups[i].hit)
                   => LET d    == call'[c].lookups[i].dir
                          rows == sessionAggregateCache[d].usageRows
                      IN  /\ \A n \in 1..Len(rows) :
                               \E m \in 1..Len(call'[c].sessions) :
                                 call'[c].sessions[m] = rows[n]
                          /\ fs[d].mtime = sessionAggregateCache[d].updatedAt
                               => (rows = RowsNow(d, fs[d].mtime, call'[c].defaultModel)
                                    <=> \A n \in 1..Len(rows) :
                                          rows[n].modelId = call'[c].defaultModel)]_vars

\* a pass that resolved the default model gpt-b has hit the entry of d1,
\* whose log is unchanged, and returned its row with modelId gpt-a
C35_Witness ==
  \E c \in CallIds :
    /\ SlowDone(c) /\ call[c].defaultModel = "gpt-b"
    /\ \E i \in 1..Len(call[c].lookups) :
         /\ call[c].lookups[i].dir = "d1" /\ call[c].lookups[i].hit
         /\ call[c].lookups[i].updatedAt = fs["d1"].mtime
    /\ \E m \in 1..Len(call[c].sessions) : call[c].sessions[m].modelId = "gpt-a"
    /\ sessionAggregateCache["d1"].usageRows /= RowsNow("d1", fs["d1"].mtime, "gpt-b")

\* ------------------------------------------------------------------------
\* Claims about the watches of recreated directories (checked under SpecDirs)
\* ------------------------------------------------------------------------

\* C36: a slow-path pass leaves a live dirty-tracking watch on every session
\* directory its loop reaches (watchSessionDir at line 288) while the
\* directory exists, also on a directory that was deleted and created again
\* under the same path.
C36_DiscoveredDirsWatched ==
  [][\A c \in CallIds :
       (InSlowPath(c) /\ call'[c] /= call[c])
         => \A d \in Examined(c) :
              (rootExists /\ fs[d].exists)
                => sessionWatcher'.sessionDirWatchers[d] = "live"]_vars

\* ------------------------------------------------------------------------
\* Claims about directories that appear after startActivityWatch (checked
\* under SpecAppear)
\* ------------------------------------------------------------------------

\* the second line of the log of d, an assistant message, is on disk, written
\* after the watcher had handled everything it was notified of
SecondLineWritten(d) ==
  /\ activityWatcher.started /\ rootExists /\ fs[d].exists
  /\ fs[d].size = 2 * LineBytes

\* the update of the second line of the log of d has been passed to the
\* callback
SecondLineDelivered(d) ==
  \E i \in 1..Len(delivered) : delivered[i].dir = d /\ delivered[i].line = 2

\* C37: once startActivityWatch has been called, every session directory
\* that appears later is eventually tailed, whether the root existed at the
\* call or was created afterwards: the assistant message appended to its
\* log is eventually delivered to the callback.
C37_LaterDirsEventuallyTailed ==
  \A d \in Dirs : SecondLineWritten(d) ~> SecondLineDelivered(d)

\* ------------------------------------------------------------------------
\* Claims about the fields of cached rows and index entries (checked under
\* SpecDirty)
\* ------------------------------------------------------------------------

============================================================================
